---------------------------- MODULE Spec2Model ----------------------------
(***************************************************************************)
(* A model of the TFTP packet codec of src/TFTP.go (and of the earlier     *)
(* ReadReq revision kept in src/DialTimeout.go).                           *)
(*                                                                         *)
(* Go strings and byte slices are sequences of byte values 0..255; the nil *)
(* error is the string "nil" and every other error is its message.         *)
(***************************************************************************)
EXTENDS Integers, Sequences, FiniteSets, TLC

VARIABLES
    req,      \* the ReadReq the client encodes
    raw,      \* a datagram handed over by the transport
    out,      \* bytes returned by the last ReadReq.MarshalBinary
    p,        \* argument of the last ReadReq.UnmarshalBinary
    q,        \* receiver of ReadReq.UnmarshalBinary
    rerr,     \* error returned by the last ReadReq call
    op,       \* last ReadReq operation
    d,        \* the sender's Data packet: Block and the Payload reader
    dpre,     \* d as it was before the last Data.MarshalBinary
    b0,       \* d.Block before the first Data.MarshalBinary
    src0,     \* the bytes of d.Payload before the first Data.MarshalBinary
    chunks,   \* the payloads of the datagrams Data.MarshalBinary returned
    calls,    \* number of Data.MarshalBinary calls made on d
    succ,     \* number of those calls that returned a nil error
    dout,     \* bytes returned by the last Data.MarshalBinary
    draw,     \* a datagram handed over by the transport
    dp,       \* argument of the last Data.UnmarshalBinary
    rd,       \* receiver of Data.UnmarshalBinary
    derr,     \* error returned by the last Data call
    dop,      \* last Data operation
    ack,      \* the Ack the receiver encodes
    asent,    \* whether Ack.MarshaBinary has been called
    aout,     \* bytes returned by the last Ack.MarshaBinary
    araw,     \* a datagram handed over by the transport
    ap,       \* argument of the last Acknowledgment decode
    ra,       \* receiver of the Acknowledgment decode
    aerr,     \* error returned by the last Ack call
    aop,      \* last Ack operation
    e,        \* the ErrorPacket the sender encodes
    eout,     \* bytes returned by the last ErrorPacket encode
    eraw,     \* a datagram handed over by the transport
    ep,       \* argument of the last ErrorPacket decode
    re,       \* receiver of the ErrorPacket decode
    eerr,     \* error returned by the last ErrorPacket call
    eop,      \* last ErrorPacket operation
    dgram,    \* a datagram handed to the dispatch decode
    pkt,      \* packet returned by the last dispatch decode
    perr,     \* error returned by the last dispatch decode
    pop,      \* last dispatch operation
    sendI,    \* SendWithRetry: the loop counter i
    sendPC,   \* SendWithRetry: where the call is
    sendErr,  \* SendWithRetry: the error returned
    sendLog,  \* SendWithRetry: the results of the conn.Write calls made so far
    tlvQueue, \* TLV: the payloads the writing end has still to write
    tlvSent,  \* TLV: the payloads written so far, in order
    tlvStream,\* TLV: the bytes written to the connection and not yet read
    tlvOpen,  \* TLV: whether the writing end is still open
    tlvGot,   \* TLV: the payloads decode has returned, in order
    tlvLast,  \* TLV: what the last decode call did
    now,          \* Pinger: the clock, in seconds
    pingGo123,    \* Pinger: whether the build has the timer channels of Go 1.23
    pingPC,       \* Pinger: where the call is
    pingCtx,      \* Pinger: whether ctx has been cancelled
    pingCtxAt,    \* Pinger: where the call was when ctx was cancelled
    pingReset,    \* Pinger: the values waiting in the reset channel
    pingInterval, \* Pinger: the local interval
    pingTimer,    \* Pinger: the timer and its channel timer.C
    pingResetAt,  \* Pinger: when the last value was received from reset
    pingWroteAt,  \* Pinger: when the last "ping" since that value was written
    pingFailed,   \* Pinger: whether a w.Write has returned an error
    pingLast,     \* Pinger: the value received on the reset channel since timer.C was last read
    udpInbox,     \* echoServerUDP: the datagrams waiting in the socket
    udpPC,        \* echoServerUDP: where the receive loop is
    udpBuf,       \* echoServerUDP: buf[:n] and clientAddr of the last ReadFrom
    udpCtx,       \* echoServerUDP: whether ctx has been cancelled
    udpClosed,    \* echoServerUDP: whether the socket has been closed
    udpReceived,  \* echoServerUDP: the datagrams ReadFrom has returned, in order
    udpEchoed,    \* echoServerUDP: the datagrams WriteTo has sent, in order
    fanPC,        \* fan-out dial: how many dialer goroutines are at each point
    fanMain,      \* fan-out dial: where the test function is
    fanCtx,       \* fan-out dial: ctx.Err(): "nil", "canceled" or "deadline"
    fanGot,       \* fan-out dial: the ids received on the response channel, in order
    fanClosed,    \* fan-out dial: whether the response channel has been closed
    fanPanic,     \* fan-out dial: whether a dialer has sent on the closed channel
    proxyPC,      \* proxyConn: where the function is
    proxyErr,     \* proxyConn: the error it returned
    proxyOpen,    \* proxyConn: which of connSource, connDestination is open
    proxyPeer,    \* proxyConn: the bytes each peer has still to send
    proxyEOF,     \* proxyConn: which peer has ended its side
    proxyCopy,    \* proxyConn: where each io.Copy goroutine is
    proxyBuf,     \* proxyConn: the bytes each io.Copy has read and not yet written
    proxyRelayed, \* proxyConn: the bytes each io.Copy has written, in order
    raceD,        \* shared Data: the packet two threads call MarshalBinary on
    raceSrc,      \* shared Data: the bytes of its Payload before the first call
    raceSync,     \* shared Data: whether the callers serialize their calls
    racePC,       \* shared Data: where each thread is in its call
    raceTmp,      \* shared Data: the Block each thread loaded for d.Block++
    raceBlk,      \* shared Data: the Block each thread wrote into its buffer
    raceCalls,    \* shared Data: number of calls started
    raceOut       \* shared Data: the datagrams returned, as block and payload

varsRRQ == <<req, raw, out, p, q, rerr, op>>

varsData == <<d, dpre, b0, src0, chunks, calls, succ, dout, draw, dp, rd, derr, dop>>

varsAck == <<ack, asent, aout, araw, ap, ra, aerr, aop>>

varsErr == <<e, eout, eraw, ep, re, eerr, eop>>

varsDecode == <<dgram, pkt, perr, pop>>

varsSend == <<sendI, sendPC, sendErr, sendLog>>

varsTLV == <<tlvQueue, tlvSent, tlvStream, tlvOpen, tlvGot, tlvLast>>

varsPing == <<now, pingGo123, pingPC, pingCtx, pingCtxAt, pingReset, pingInterval,
             pingTimer, pingResetAt, pingWroteAt, pingFailed, pingLast>>

varsUDP == <<udpInbox, udpPC, udpBuf, udpCtx, udpClosed, udpReceived, udpEchoed>>

varsFan == <<fanPC, fanMain, fanCtx, fanGot, fanClosed, fanPanic>>

varsProxy == <<proxyPC, proxyErr, proxyOpen, proxyPeer, proxyEOF, proxyCopy, proxyBuf, proxyRelayed>>

varsRace == <<raceD, raceSrc, raceSync, racePC, raceTmp, raceBlk, raceCalls, raceOut>>

varsTFTP == <<varsRRQ, varsData, varsAck, varsErr, varsDecode>>

varsNet == <<varsSend, varsTLV, varsPing, varsUDP, varsFan, varsProxy, varsRace>>

vars == <<varsTFTP, varsNet>>

\* What each codec leaves alone.
notRRQ == <<varsData, varsAck, varsErr, varsDecode, varsNet>>

notData == <<varsRRQ, varsAck, varsErr, varsDecode, varsNet>>

notAck == <<varsRRQ, varsData, varsErr, varsDecode, varsNet>>

notErr == <<varsRRQ, varsData, varsAck, varsDecode, varsNet>>

notDecode == <<varsRRQ, varsData, varsAck, varsErr, varsNet>>

notSend == <<varsTFTP, varsTLV, varsPing, varsUDP, varsFan, varsProxy, varsRace>>

notTLV == <<varsTFTP, varsSend, varsPing, varsUDP, varsFan, varsProxy, varsRace>>

notPing == <<varsTFTP, varsSend, varsTLV, varsUDP, varsFan, varsProxy, varsRace>>

notUDP == <<varsTFTP, varsSend, varsTLV, varsPing, varsFan, varsProxy, varsRace>>

notFan == <<varsTFTP, varsSend, varsTLV, varsPing, varsUDP, varsProxy, varsRace>>

notProxy == <<varsTFTP, varsSend, varsTLV, varsPing, varsUDP, varsFan, varsRace>>

notRace == <<varsTFTP, varsSend, varsTLV, varsPing, varsUDP, varsFan, varsProxy>>

-----------------------------------------------------------------------------
(* Bounds of the model *)

MaxNameLen == 2
MaxRawLen == 3
MaxChunks == 2
MaxCalls == 3
MaxSeed == 1
MaxTailLen == 4
MaxPayloadLen == 2
MaxPayloads == 2
MaxTime == 33
MaxDatagrams == 3

\* The longest run of bytes a peer of proxyConn sends.
MaxRelayLen == 2

\* The most Data.MarshalBinary calls the two threads make on the shared packet.
MaxRaceCalls == 3

-----------------------------------------------------------------------------
(* Constants of the program *)

DatagramSize == 516
BlockSize == DatagramSize - 4

OpRRQ == 1
OpWRQ == 2
\* An opcode list without the blank entry that skips the write request.
OpDataNoSkip == OpRRQ + 1

OpData == 3
OpAck == 4
OpErr == 5

-----------------------------------------------------------------------------
(* Byte strings *)

NUL == 0
StrOctet == <<111, 99, 116, 101, 116>>                   \* "octet"
StrOCTET == <<79, 67, 84, 69, 84>>                       \* "OCTET"
StrOctetCap == <<79, 99, 116, 101, 116>>                 \* "Octet"
StrOcTeT == <<111, 67, 116, 69, 116>>                    \* "oCtEt"
StrNetascii == <<110, 101, 116, 97, 115, 99, 105, 105>>  \* "netascii"
StrOctets == <<111, 99, 116, 101, 116, 115>>             \* "octets"
StrMail == <<77, 97, 105, 108>>                          \* "Mail"

\* Sequences over S of length at most n.
SeqsUpTo(S, n) == UNION {[1..k -> S] : k \in 0..n}

\* binary.BigEndian encoding of a uint16.
PutUint16(v) == <<(v \div 256) % 256, v % 256>>

\* strings.ToLower on ASCII text.
ToLower(s) == [i \in DOMAIN s |-> IF s[i] \in 65..90 THEN s[i] + 32 ELSE s[i]]

\* Number of trailing NUL bytes of s.
RECURSIVE TrailingNULs(_)
TrailingNULs(s) ==
    IF s = <<>> \/ s[Len(s)] # NUL THEN 0
    ELSE 1 + TrailingNULs(SubSeq(s, 1, Len(s) - 1))

\* A slip that forgets to trim the terminator.
TrimRightNULKeep(s) == s

\* strings.TrimRight(s, "\x00")
TrimRightNUL(s) == SubSeq(s, 1, Len(s) - TrailingNULs(s))

\* Positions of the delimiter in s.
DelimAt(s, delim) == {i \in DOMAIN s : s[i] = delim}

Min(S) == CHOOSE x \in S : \A y \in S : x <= y

\* A reader that reports no error when the delimiter is missing.
ReadStringNoEOF(s, delim) ==
    IF DelimAt(s, delim) = {}
    THEN [str |-> s, rest |-> <<>>, err |-> "nil"]
    ELSE LET i == Min(DelimAt(s, delim))
         IN [str |-> SubSeq(s, 1, i), rest |-> SubSeq(s, i + 1, Len(s)), err |-> "nil"]

\* (*bytes.Buffer).ReadString(delim): the bytes up to and including the first
\* delimiter; without a delimiter, all remaining bytes and io.EOF.
ReadString(s, delim) ==
    IF DelimAt(s, delim) = {}
    THEN [str |-> s, rest |-> <<>>, err |-> "EOF"]
    ELSE LET i == Min(DelimAt(s, delim))
         IN [str |-> SubSeq(s, 1, i), rest |-> SubSeq(s, i + 1, Len(s)), err |-> "nil"]

\* binary.Read(r, binary.BigEndian, &code) for a uint16.
ReadUint16(s) ==
    IF Len(s) = 0 THEN [val |-> 0, rest |-> <<>>, err |-> "EOF"]
    ELSE IF Len(s) = 1 THEN [val |-> 0, rest |-> <<>>, err |-> "unexpected EOF"]
    ELSE [val |-> s[1] * 256 + s[2], rest |-> SubSeq(s, 3, Len(s)), err |-> "nil"]

-----------------------------------------------------------------------------
(* ReadReq *)

ReadReq(f, m) == [Filename |-> f, Mode |-> m]

ZeroReadReq == ReadReq(<<>>, <<>>)

\* A slip that writes the Mode field instead of the defaulted mode.
ReadReqMarshalNoDefault(r) ==
    PutUint16(OpRRQ) \o r.Filename \o <<NUL>> \o r.Mode \o <<NUL>>

\* ReadReq.MarshalBinary (src/TFTP.go); writes to a bytes.Buffer never fail.
ReadReqMarshalBinary(r) ==
    LET mode == IF r.Mode # <<>> THEN r.Mode ELSE StrOctet
    IN PutUint16(OpRRQ) \o r.Filename \o <<NUL>> \o mode \o <<NUL>>

\* ReadReq.MarshalBinary of the revision in src/DialTimeout.go: it differs
\* only in the capacity it asks the buffer to grow to.
ReadReqMarshalBinaryDT(r) ==
    LET mode == IF r.Mode # <<>> THEN r.Mode ELSE StrOctet
    IN PutUint16(OpRRQ) \o r.Filename \o <<NUL>> \o mode \o <<NUL>>

\* An opcode test that lets the reserved write request through.
OpcodeIsRRQOrWRQ(code) == code \in {OpRRQ, OpWRQ}

\* code != OpRRQ, negated
OpcodeIsRRQ(code) == code = OpRRQ

\* An emptiness test that never fires.
EmptyFilenameNever(f) == FALSE

\* len(q.Filename) == 0
EmptyFilename(f) == Len(f) = 0

\* A decoder that stores the normalised mode.
ReadReqUnmarshalNormalising(r, b) ==
    LET code == ReadUint16(b)
        fn == ReadString(code.rest, NUL)
        r1 == [r EXCEPT !.Filename = TrimRightNUL(fn.str)]
        md == ReadString(fn.rest, NUL)
        r2 == [r1 EXCEPT !.Mode = ToLower(TrimRightNUL(md.str))]
    IN IF code.err # "nil" THEN [q |-> r, err |-> code.err]
       ELSE IF ~OpcodeIsRRQ(code.val) THEN [q |-> r, err |-> "invalid RRQ"]
       ELSE IF fn.err # "nil" THEN [q |-> r, err |-> "invalid RRQ"]
       ELSE IF EmptyFilename(r1.Filename)
            THEN [q |-> r1, err |-> "invalid RRQ: empty filename"]
       ELSE IF md.err # "nil" THEN [q |-> r1, err |-> "invalid RRQ"]
       ELSE IF r2.Mode # StrOctet
            THEN [q |-> r2, err |-> "only binary transfers supported"]
       ELSE [q |-> r2, err |-> "nil"]

\* (*ReadReq).UnmarshalBinary (src/TFTP.go): the receiver after the call and
\* the error returned, for receiver r and argument b.
ReadReqUnmarshalBinary(r, b) ==
    LET code == ReadUint16(b)
        fn == ReadString(code.rest, NUL)
        r1 == [r EXCEPT !.Filename = TrimRightNUL(fn.str)]
        md == ReadString(fn.rest, NUL)
        r2 == [r1 EXCEPT !.Mode = TrimRightNUL(md.str)]
        actual == ToLower(r2.Mode)
    IN IF code.err # "nil" THEN [q |-> r, err |-> code.err]
       ELSE IF ~OpcodeIsRRQ(code.val) THEN [q |-> r, err |-> "invalid RRQ"]
       ELSE IF fn.err # "nil" THEN [q |-> r, err |-> "invalid RRQ"]
       ELSE IF EmptyFilename(r1.Filename)
            THEN [q |-> r1, err |-> "invalid RRQ: empty filename"]
       ELSE IF md.err # "nil" THEN [q |-> r1, err |-> "invalid RRQ"]
       ELSE IF actual # StrOctet
            THEN [q |-> r2, err |-> "only binary transfers supported"]
       ELSE [q |-> r2, err |-> "nil"]

\* (*ReadReq).UnmarshalBinary of the revision in src/DialTimeout.go: the
\* filename is assigned to the receiver as soon as it is read, and the mode is
\* compared without trimming its terminator.
ReadReqUnmarshalBinaryDT(r, b) ==
    LET code == ReadUint16(b)
        fn == ReadString(code.rest, NUL)
        r0 == [r EXCEPT !.Filename = fn.str]
        r1 == [r EXCEPT !.Filename = TrimRightNUL(fn.str)]
        md == ReadString(fn.rest, NUL)
        r2 == [r1 EXCEPT !.Mode = md.str]
        actual == ToLower(r2.Mode)
    IN IF code.err # "nil" THEN [q |-> r, err |-> code.err]
       ELSE IF code.val # OpRRQ THEN [q |-> r, err |-> "invalid RRQ"]
       ELSE IF fn.err # "nil" THEN [q |-> r0, err |-> "invalid RRQ"]
       ELSE IF Len(r1.Filename) = 0 THEN [q |-> r1, err |-> "invalid RRQ"]
       ELSE IF md.err # "nil" THEN [q |-> r2, err |-> "invalid RRQ"]
       ELSE IF actual # StrOctet
            THEN [q |-> r2, err |-> "only binary transfers supported"]
       ELSE [q |-> r2, err |-> "nil"]

-----------------------------------------------------------------------------
(* Data *)

\* An io.Reader: the bytes it has yet to deliver and, when fault >= 0, the
\* number of bytes it delivers before one Read returns an error other than
\* io.EOF (fault = -1: it only ever ends with io.EOF).  NilReader is the nil
\* interface value of a Data that was never given a Payload.
Reader(bytes, fault) == [kind |-> "reader", data |-> bytes, fault |-> fault]
NilReader == [kind |-> "nil", data |-> <<>>, fault |-> -1]

Data(block, payload) == [Block |-> block, Payload |-> payload]

ZeroData == Data(0, NilReader)

\* A uint16 increment that saturates instead of advancing.
IncUint16Stuck(v) == v

\* d.Block++ on a uint16
IncUint16(v) == (v + 1) % 65536

MinOf(a, b) == IF a <= b THEN a ELSE b

\* A copy that takes one byte less than asked.
CopyNShort(r, n) ==
    LET k == MinOf(n - 1, Len(r.data))
    IN [bytes |-> SubSeq(r.data, 1, k),
        err |-> "nil",
        reader |-> [r EXCEPT !.data = SubSeq(r.data, k + 1, Len(r.data))]]

\* A copy that pads a short last chunk with zero bytes up to n.
CopyNPadded(r, n) ==
    LET k == MinOf(n, Len(r.data))
    IN [bytes |-> SubSeq(r.data, 1, k) \o [i \in 1..(n - k) |-> 0],
        err |-> "nil",
        reader |-> [r EXCEPT !.data = SubSeq(r.data, k + 1, Len(r.data))]]

\* A copy that leaves the bytes it took in the reader.
CopyNNoAdvance(r, n) ==
    LET k == MinOf(n, Len(r.data))
    IN [bytes |-> SubSeq(r.data, 1, k),
        err |-> IF k < n THEN "EOF" ELSE "nil",
        reader |-> r]

\* io.CopyN(b, r, n) into a bytes.Buffer: the bytes appended, the error, and
\* the reader afterwards.  The reader is asked for bytes until n are copied
\* or it ends; its fault strikes when a Read is made at that offset.
CopyN(r, n) ==
    LET k == MinOf(n, Len(r.data))
    IN IF r.fault >= 0 /\ r.fault < n /\ r.fault <= Len(r.data)
       THEN [bytes |-> SubSeq(r.data, 1, r.fault),
             err |-> "read error",
             reader |-> [r EXCEPT !.data = SubSeq(r.data, r.fault + 1, Len(r.data)),
                                  !.fault = -1]]
       ELSE [bytes |-> SubSeq(r.data, 1, k),
             err |-> IF k < n THEN "EOF" ELSE "nil",
             reader |-> [r EXCEPT !.data = SubSeq(r.data, k + 1, Len(r.data)),
                                  !.fault = IF r.fault >= 0 THEN r.fault - k ELSE -1]]

\* An encoder that refuses a source holding more than one block.
DataMarshalRejectOversize(x) ==
    LET block == (x.Block + 1) % 65536
        k == MinOf(BlockSize, Len(x.Payload.data))
    IN IF Len(x.Payload.data) > BlockSize
       THEN [d |-> Data(block, x.Payload), out |-> <<>>, err |-> "payload too large"]
       ELSE [d |-> Data(block, [x.Payload EXCEPT !.data = <<>>]),
             out |-> PutUint16(OpData) \o PutUint16(block) \o SubSeq(x.Payload.data, 1, k),
             err |-> "nil"]

\* (*Data).MarshalBinary: the packet after the call, the bytes returned (nil,
\* the empty sequence, on an error) and the error.
DataMarshalBinary(x) ==
    LET block == IncUint16(x.Block)
        cp == CopyN(x.Payload, BlockSize)
        after == Data(block, cp.reader)
    IN IF cp.err # "nil" /\ cp.err # "EOF"
       THEN [d |-> after, out |-> <<>>, err |-> cp.err]
       ELSE [d |-> after,
             out |-> PutUint16(OpData) \o PutUint16(block) \o cp.bytes,
             err |-> "nil"]

\* A length test that lets a datagram of DatagramSize + 1 bytes through.
DataLengthBadOffByOne(l) == l < 4 \/ l > DatagramSize + 1

\* l < 4 || l > DatagramSize
DataLengthBad(l) == l < 4 \/ l > DatagramSize

\* A decoder that takes the payload from p[3:] instead of p[4:].
DataUnmarshalPayloadOffByOne(x, b) ==
    IF DataLengthBad(Len(b)) THEN [d |-> x, err |-> "invalid Data"]
    ELSE IF b[1] * 256 + b[2] # OpData THEN [d |-> x, err |-> "invalid DATA"]
    ELSE [d |-> Data(b[3] * 256 + b[4], Reader(SubSeq(b, 4, Len(b)), -1)),
          err |-> "nil"]

\* (*Data).UnmarshalBinary: the receiver after the call and the error.
DataUnmarshalBinary(x, b) ==
    IF DataLengthBad(Len(b)) THEN [d |-> x, err |-> "invalid Data"]
    ELSE LET opcode == ReadUint16(SubSeq(b, 1, 2))
             block == ReadUint16(SubSeq(b, 3, 4))
         IN IF opcode.err # "nil" \/ opcode.val # OpData
            THEN [d |-> x, err |-> "invalid DATA"]
            ELSE IF block.err # "nil"
            THEN [d |-> x, err |-> "invalid DATA"]
            ELSE [d |-> Data(block.val, Reader(SubSeq(b, 5, Len(b)), -1)),
                  err |-> "nil"]

-----------------------------------------------------------------------------
(* Inputs of the Data codec *)

\* The content of a payload source of n bytes.
SourceBytes(n, seed) == [i \in 1..n |-> (i + 7 * seed) % 251]

SourceLens == {c * BlockSize + r : c \in 0..MaxChunks, r \in {0, 1, 100, BlockSize - 1}}

Faults == {-1, 0, 100, BlockSize, BlockSize + 88}

StartBlocks == {0, 5, 41, 65534, 65535}

Sources == {Reader(SourceBytes(n, s), f) : n \in SourceLens, s \in 0..MaxSeed, f \in Faults}

RawDataLens == {0, 1, 2, 3, 4, 5, 104, DatagramSize - 1, DatagramSize, DatagramSize + 1, DatagramSize + 2}

RawHeaders == {<<0, 3, 0, 6>>, <<0, 3, 255, 255>>, <<0, 1, 0, 6>>, <<0, 4, 0, 6>>, <<3, 0, 0, 6>>, <<0, 5, 1, 2>>}

RawDatagrams ==
    {SubSeq(h \o SourceBytes(DatagramSize, s), 1, n) :
        h \in RawHeaders, s \in 0..MaxSeed, n \in RawDataLens}

DataReceivers == {ZeroData, Data(7, Reader(<<1, 2, 3>>, -1))}

-----------------------------------------------------------------------------
(* Ack *)

\* type Ack uint16: the block number itself.
Ack(n) == n % 65536

\* (a Ack) MarshaBinary(): the body writes OpAck into the buffer and ends
\* there; the block number is never written and no statement returns the
\* buffer.  Whatever the call hands back is built from what the body computed:
\* no bytes at all, or the two opcode bytes.
AckMarshaBinary(a) ==
    LET b == PutUint16(OpAck)
    IN {[out |-> <<>>, err |-> "nil"], [out |-> b, err |-> "nil"]}

\* Decode(bytes) -> Acknowledgment: InvalidPacket unless the length is exactly
\* 4 and the opcode is 4; Block is the next two bytes.
AckDecode(a, b) ==
    IF Len(b) # 4 \/ ReadUint16(b).val # OpAck
    THEN [a |-> a, err |-> "InvalidPacket"]
    ELSE [a |-> Ack(ReadUint16(SubSeq(b, 3, 4)).val), err |-> "nil"]

-----------------------------------------------------------------------------
(* ErrorPacket *)

ErrorPacket(code, msg) == [Code |-> code, Message |-> msg]

ZeroErrorPacket == ErrorPacket(0, <<>>)

\* Encode(ErrorPacket): opcode 5, the 2-byte code, the message, a zero byte.
ErrorPacketEncode(x) ==
    [out |-> PutUint16(OpErr) \o PutUint16(x.Code) \o x.Message \o <<NUL>>,
     err |-> "nil"]

\* Decode(bytes) -> ErrorPacket: the framing of the ReadReq decoder, with
\* opcode 5 and a 2-byte code in place of the first string.
ErrorPacketDecode(x, b) ==
    LET h == ReadUint16(b)
    IN IF h.err # "nil" THEN [e |-> x, err |-> "MalformedFraming"]
       ELSE IF h.val # OpErr THEN [e |-> x, err |-> "InvalidOpcode"]
       ELSE LET c == ReadUint16(h.rest)
            IN IF c.err # "nil" THEN [e |-> x, err |-> "MalformedFraming"]
               ELSE LET m == ReadString(c.rest, NUL)
                    IN IF m.err # "nil"
                       THEN [e |-> x, err |-> "MalformedFraming"]
                       ELSE [e |-> ErrorPacket(c.val, TrimRightNUL(m.str)),
                             err |-> "nil"]

-----------------------------------------------------------------------------
(* Dispatch decode *)

Packet(kind, val) == [kind |-> kind, val |-> val]

NoPacket == Packet("none", <<>>)

\* Reads the 2-byte opcode, selects the packet kind by its value and hands the
\* whole buffer, opcode included, to that kind's decoder with a zero-value
\* receiver; any other opcode is UnknownType.
DispatchDecode(b) ==
    LET h == ReadUint16(b)
    IN IF h.err # "nil" THEN [pkt |-> NoPacket, err |-> "MalformedFraming"]
       ELSE IF h.val = OpRRQ
       THEN LET r == ReadReqUnmarshalBinary(ZeroReadReq, b)
            IN [pkt |-> Packet("rrq", r.q), err |-> r.err]
       ELSE IF h.val = OpData
       THEN LET r == DataUnmarshalBinary(ZeroData, b)
            IN [pkt |-> Packet("data", r.d), err |-> r.err]
       ELSE IF h.val = OpAck
       THEN LET r == AckDecode(Ack(0), b)
            IN [pkt |-> Packet("ack", r.a), err |-> r.err]
       ELSE IF h.val = OpErr
       THEN LET r == ErrorPacketDecode(ZeroErrorPacket, b)
            IN [pkt |-> Packet("error", r.e), err |-> r.err]
       ELSE [pkt |-> NoPacket, err |-> "UnknownType"]

-----------------------------------------------------------------------------
(* The variables of the codecs that are not running *)

IdleAck ==
    /\ ack = Ack(0)
    /\ asent = FALSE
    /\ aout = <<>>
    /\ araw = <<>>
    /\ ap = <<>>
    /\ ra = Ack(0)
    /\ aerr = "nil"
    /\ aop = "init"

IdleErr ==
    /\ e = ZeroErrorPacket
    /\ eout = <<>>
    /\ eraw = <<>>
    /\ ep = <<>>
    /\ re = ZeroErrorPacket
    /\ eerr = "nil"
    /\ eop = "init"

IdleDecode ==
    /\ dgram = <<>>
    /\ pkt = NoPacket
    /\ perr = "nil"
    /\ pop = "init"

\* What a decode call did: the type byte and the declared length it read
\* (-1 when it did not get that far), the size of the buffer it allocated and
\* the error it returned.
LastDecode(typ, size, alloc, err) ==
    [typ |-> typ, size |-> size, alloc |-> alloc, err |-> err]

NoDecode == LastDecode(-1, -1, 0, "nil")

IdleTLV ==
    /\ tlvQueue = <<>>
    /\ tlvSent = <<>>
    /\ tlvStream = <<>>
    /\ tlvOpen = FALSE
    /\ tlvGot = <<>>
    /\ tlvLast = NoDecode

\* A time.Timer: whether it is running, when it fires, and whether a value
\* is waiting in its channel.
Timer(active, deadline, pending) ==
    [active |-> active, deadline |-> deadline, pending |-> pending]

NoTimer == Timer(FALSE, 0, FALSE)

IdlePing ==
    /\ now = 0
    /\ pingGo123 = FALSE
    /\ pingPC = "idle"
    /\ pingCtx = FALSE
    /\ pingCtxAt = "idle"
    /\ pingReset = <<>>
    /\ pingInterval = 0
    /\ pingTimer = NoTimer
    /\ pingResetAt = -1
    /\ pingWroteAt = -1
    /\ pingFailed = FALSE
    /\ pingLast = <<>>

\* A datagram with the address it comes from or goes to.
Datagram(addr, data) == [addr |-> addr, data |-> data]

NoDatagram == Datagram("", <<>>)

IdleUDP ==
    /\ udpInbox = <<>>
    /\ udpPC = "idle"
    /\ udpBuf = NoDatagram
    /\ udpCtx = FALSE
    /\ udpClosed = FALSE
    /\ udpReceived = <<>>
    /\ udpEchoed = <<>>

IdleFan ==
    /\ fanPC = [dial |-> 0, select |-> 0, done |-> 0]
    /\ fanMain = "idle"
    /\ fanCtx = "nil"
    /\ fanGot = <<>>
    /\ fanClosed = FALSE
    /\ fanPanic = FALSE

\* The two connections of proxyConn, and the two directions it relays in,
\* each named by the connection io.Copy writes to.
Conns == {"source", "destination"}

Other(c) == IF c = "source" THEN "destination" ELSE "source"

IdleProxy ==
    /\ proxyPC = "idle"
    /\ proxyErr = "nil"
    /\ proxyOpen = [c \in Conns |-> FALSE]
    /\ proxyPeer = [c \in Conns |-> <<>>]
    /\ proxyEOF = [c \in Conns |-> FALSE]
    /\ proxyCopy = [c \in Conns |-> "none"]
    /\ proxyBuf = [c \in Conns |-> <<>>]
    /\ proxyRelayed = [c \in Conns |-> <<>>]

\* The two threads that share a Data packet.
Threads == {1, 2}

IdleRace ==
    /\ raceD = [Block |-> 0, Payload |-> <<>>]
    /\ raceSrc = <<>>
    /\ raceSync = FALSE
    /\ racePC = [t \in Threads |-> "none"]
    /\ raceTmp = [t \in Threads |-> 0]
    /\ raceBlk = [t \in Threads |-> 0]
    /\ raceCalls = 0
    /\ raceOut = <<>>

IdleSend ==
    /\ sendI = 0
    /\ sendPC = "idle"
    /\ sendErr = "nil"
    /\ sendLog = <<>>

-----------------------------------------------------------------------------
(* The Data variables while only the ReadReq codec runs *)

IdleData ==
    /\ d = ZeroData
    /\ dpre = ZeroData
    /\ b0 = 0
    /\ src0 = <<>>
    /\ chunks = <<>>
    /\ calls = 0
    /\ succ = 0
    /\ dout = <<>>
    /\ draw = <<>>
    /\ dp = <<>>
    /\ rd = ZeroData
    /\ derr = "nil"
    /\ dop = "init"

IdleNet ==
    /\ IdleSend
    /\ IdleTLV
    /\ IdlePing
    /\ IdleUDP
    /\ IdleFan
    /\ IdleProxy
    /\ IdleRace

-----------------------------------------------------------------------------
(* Inputs of the ReadReq codec *)

NameBytes == {NUL, 65, 97}
TextBytes == NameBytes \ {NUL}
RawBytes == {0, 1, 2, 97}

Modes == {<<>>, StrOctet, StrOCTET, StrOctetCap, StrOcTeT, StrNetascii, StrOctets, StrMail}

Requests == {ReadReq(f, m) : f \in SeqsUpTo(NameBytes, MaxNameLen), m \in Modes}

\* Datagrams framed like an RRQ, with either terminator possibly missing and
\* possibly followed by more bytes, and short arbitrary datagrams.
FramedInputs ==
    {PutUint16(OpRRQ) \o f \o t1 \o m \o t2 \o x :
        f \in SeqsUpTo(TextBytes, MaxNameLen), t1 \in {<<>>, <<NUL>>},
        m \in Modes, t2 \in {<<>>, <<NUL>>}, x \in {<<>>, <<NUL>>}}

RawInputs == FramedInputs \cup SeqsUpTo(RawBytes, MaxRawLen)

Receivers == {ZeroReadReq, ReadReq(<<98>>, StrOctet)}

-----------------------------------------------------------------------------
(* The ReadReq codec as a state machine *)

InitRRQ ==
    /\ \/ req \in Requests /\ raw = <<>>
       \/ req = ZeroReadReq /\ raw \in RawInputs
    /\ q \in Receivers
    /\ out = <<>>
    /\ p = <<>>
    /\ rerr = "nil"
    /\ op = "init"
    /\ IdleData
    /\ IdleAck
    /\ IdleErr
    /\ IdleDecode
    /\ IdleNet

\* out, err := req.MarshalBinary()
RRQMarshal ==
    /\ out' = ReadReqMarshalBinary(req)
    /\ rerr' = "nil"
    /\ op' = "marshal"
    /\ UNCHANGED <<req, raw, p, q>>
    /\ UNCHANGED notRRQ

\* out, err := req.MarshalBinary() in the revision of src/DialTimeout.go
RRQMarshalDT ==
    /\ out' = ReadReqMarshalBinaryDT(req)
    /\ rerr' = "nil"
    /\ op' = "marshalDT"
    /\ UNCHANGED <<req, raw, p, q>>
    /\ UNCHANGED notRRQ

\* err := q.UnmarshalBinary(b), b being the transport's datagram or the bytes
\* the encoder returned
RRQUnmarshal ==
    /\ \E b \in {raw, out} :
        LET res == ReadReqUnmarshalBinary(q, b)
        IN /\ p' = b
           /\ q' = res.q
           /\ rerr' = res.err
    /\ op' = "unmarshal"
    /\ UNCHANGED <<req, raw, out>>
    /\ UNCHANGED notRRQ

\* err := q.UnmarshalBinary(b) in the revision of src/DialTimeout.go
RRQUnmarshalDT ==
    /\ \E b \in {raw, out} :
        LET res == ReadReqUnmarshalBinaryDT(q, b)
        IN /\ p' = b
           /\ q' = res.q
           /\ rerr' = res.err
    /\ op' = "unmarshalDT"
    /\ UNCHANGED <<req, raw, out>>
    /\ UNCHANGED notRRQ

Next == RRQMarshal \/ RRQMarshalDT \/ RRQUnmarshal \/ RRQUnmarshalDT

Spec == InitRRQ /\ [][Next]_vars

-----------------------------------------------------------------------------
(* The Data codec as a state machine *)

\* The ReadReq variables while only the Data codec runs.
IdleRRQ ==
    /\ req = ZeroReadReq
    /\ raw = <<>>
    /\ out = <<>>
    /\ p = <<>>
    /\ q = ZeroReadReq
    /\ rerr = "nil"
    /\ op = "init"

IdleTFTP ==
    /\ IdleRRQ
    /\ IdleData
    /\ IdleAck
    /\ IdleErr
    /\ IdleDecode

IdleButSend ==
    /\ IdleTFTP
    /\ IdleTLV
    /\ IdlePing
    /\ IdleUDP
    /\ IdleFan
    /\ IdleProxy
    /\ IdleRace

IdleButTLV ==
    /\ IdleTFTP
    /\ IdleSend
    /\ IdlePing
    /\ IdleUDP
    /\ IdleFan
    /\ IdleProxy
    /\ IdleRace

IdleButPing ==
    /\ IdleTFTP
    /\ IdleSend
    /\ IdleTLV
    /\ IdleUDP
    /\ IdleFan
    /\ IdleProxy
    /\ IdleRace

IdleButUDP ==
    /\ IdleTFTP
    /\ IdleSend
    /\ IdleTLV
    /\ IdlePing
    /\ IdleFan
    /\ IdleProxy
    /\ IdleRace

IdleButFan ==
    /\ IdleTFTP
    /\ IdleSend
    /\ IdleTLV
    /\ IdlePing
    /\ IdleUDP
    /\ IdleProxy
    /\ IdleRace

IdleButProxy ==
    /\ IdleTFTP
    /\ IdleSend
    /\ IdleTLV
    /\ IdlePing
    /\ IdleUDP
    /\ IdleFan
    /\ IdleRace

IdleButRace ==
    /\ IdleTFTP
    /\ IdleSend
    /\ IdleTLV
    /\ IdlePing
    /\ IdleUDP
    /\ IdleFan
    /\ IdleProxy

InitData ==
    /\ \/ /\ \E blk \in StartBlocks, src \in Sources : d = Data(blk, src)
          /\ draw = <<>>
       \/ /\ d = Data(0, Reader(<<>>, -1))
          /\ draw \in RawDatagrams
    /\ rd \in DataReceivers
    /\ dpre = d
    /\ b0 = d.Block
    /\ src0 = d.Payload.data
    /\ chunks = <<>>
    /\ calls = 0
    /\ succ = 0
    /\ dout = <<>>
    /\ dp = <<>>
    /\ derr = "nil"
    /\ dop = "init"
    /\ IdleRRQ
    /\ IdleAck
    /\ IdleErr
    /\ IdleDecode
    /\ IdleNet

\* dout, err := d.MarshalBinary()
DataMarshal ==
    /\ calls < MaxCalls
    /\ LET res == DataMarshalBinary(d)
       IN /\ d' = res.d
          /\ dout' = res.out
          /\ derr' = res.err
          /\ succ' = IF res.err = "nil" THEN succ + 1 ELSE succ
          /\ chunks' = IF res.err = "nil"
                       THEN Append(chunks, SubSeq(res.out, 5, Len(res.out)))
                       ELSE chunks
    /\ dpre' = d
    /\ calls' = calls + 1
    /\ dop' = "marshal"
    /\ UNCHANGED <<b0, src0, draw, dp, rd>>
    /\ UNCHANGED notData

\* err := rd.UnmarshalBinary(b), b being the transport's datagram or the bytes
\* the encoder returned
DataUnmarshal ==
    /\ \E b \in {draw, dout} :
        LET res == DataUnmarshalBinary(rd, b)
        IN /\ dp' = b
           /\ rd' = res.d
           /\ derr' = res.err
    /\ dop' = "unmarshal"
    /\ UNCHANGED <<d, dpre, b0, src0, chunks, calls, succ, dout, draw>>
    /\ UNCHANGED notData

NextData == DataMarshal \/ DataUnmarshal

SpecData == InitData /\ [][NextData]_vars

-----------------------------------------------------------------------------
(* Inputs of the Ack and ErrorPacket codecs and of the dispatch decode *)

TailBytes == {NUL, 97}

RawOpcodes == {0, 1, 2, 3, 4, 5, 6, 257, 1028, 1280, 65535}

\* Datagrams with any opcode, and datagrams too short to hold one.
RawPackets ==
    {PutUint16(o) \o t :
        o \in RawOpcodes,
        t \in SeqsUpTo(TailBytes, MaxTailLen) \cup {<<97, NUL>> \o StrOctet \o <<NUL>>}}
    \cup {<<>>, <<0>>, <<4>>, <<5>>}

AckBlocks == {Ack(0), Ack(1), Ack(42), Ack(255), Ack(256), Ack(1028), Ack(65535)}

ErrCodes == {0, 1, 7, 8, 255, 256, 65535}

ErrorPackets ==
    {ErrorPacket(c, m) : c \in ErrCodes, m \in SeqsUpTo(TextBytes, MaxNameLen)}

-----------------------------------------------------------------------------
(* The Ack codec as a state machine *)

InitAck ==
    /\ \/ ack \in AckBlocks /\ araw = <<>>
       \/ ack = Ack(0) /\ araw \in RawPackets
    /\ ra \in {Ack(0), Ack(9)}
    /\ asent = FALSE
    /\ aout = <<>>
    /\ ap = <<>>
    /\ aerr = "nil"
    /\ aop = "init"
    /\ IdleRRQ
    /\ IdleData
    /\ IdleErr
    /\ IdleDecode
    /\ IdleNet

\* aout, err := ack.MarshaBinary()
AckMarshal ==
    /\ \E res \in AckMarshaBinary(ack) :
        /\ aout' = res.out
        /\ aerr' = res.err
    /\ asent' = TRUE
    /\ aop' = "marshal"
    /\ UNCHANGED <<ack, araw, ap, ra>>
    /\ UNCHANGED notAck

\* The Acknowledgment decode of b, b being the transport's datagram or the
\* bytes the encoder returned
AckUnmarshal ==
    /\ \E b \in {araw} \cup (IF asent THEN {aout} ELSE {}) :
        LET res == AckDecode(ra, b)
        IN /\ ap' = b
           /\ ra' = res.a
           /\ aerr' = res.err
    /\ aop' = "decode"
    /\ UNCHANGED <<ack, asent, aout, araw>>
    /\ UNCHANGED notAck

NextAck == AckMarshal \/ AckUnmarshal

SpecAck == InitAck /\ [][NextAck]_vars

-----------------------------------------------------------------------------
(* The ErrorPacket codec as a state machine *)

InitErr ==
    /\ \/ e \in ErrorPackets /\ eraw = <<>>
       \/ e = ZeroErrorPacket /\ eraw \in RawPackets
    /\ re \in {ZeroErrorPacket, ErrorPacket(3, <<98>>)}
    /\ eout = <<>>
    /\ ep = <<>>
    /\ eerr = "nil"
    /\ eop = "init"
    /\ IdleRRQ
    /\ IdleData
    /\ IdleAck
    /\ IdleDecode
    /\ IdleNet

\* eout, err := Encode(e)
ErrEncode ==
    /\ LET res == ErrorPacketEncode(e)
       IN /\ eout' = res.out
          /\ eerr' = res.err
    /\ eop' = "encode"
    /\ UNCHANGED <<e, eraw, ep, re>>
    /\ UNCHANGED notErr

\* The ErrorPacket decode of b, b being the transport's datagram or the bytes
\* the encoder returned
ErrDecode ==
    /\ \E b \in {eraw, eout} :
        LET res == ErrorPacketDecode(re, b)
        IN /\ ep' = b
           /\ re' = res.e
           /\ eerr' = res.err
    /\ eop' = "decode"
    /\ UNCHANGED <<e, eout, eraw>>
    /\ UNCHANGED notErr

NextErr == ErrEncode \/ ErrDecode

SpecErr == InitErr /\ [][NextErr]_vars

-----------------------------------------------------------------------------
(* The dispatch decode as a state machine *)

InitDecode ==
    /\ dgram \in RawPackets
    /\ pkt = NoPacket
    /\ perr = "nil"
    /\ pop = "init"
    /\ IdleRRQ
    /\ IdleData
    /\ IdleAck
    /\ IdleErr
    /\ IdleNet

\* pkt, err := Decode(dgram)
Decode ==
    /\ LET res == DispatchDecode(dgram)
       IN /\ pkt' = res.pkt
          /\ perr' = res.err
    /\ pop' = "decode"
    /\ UNCHANGED dgram
    /\ UNCHANGED notDecode

NextDecode == Decode

SpecDecode == InitDecode /\ [][NextDecode]_vars

-----------------------------------------------------------------------------
(* SendWithRetry *)

maxRetries == 7

ThresholdExceeded == "temporary write failure threshold exceeded"

\* The errors conn.Write returns in the model: bare errnos, an errno wrapped
\* by the net package, and an error that wraps no errno.
WriteErrors ==
    {"ECONNRESET", "ECONNABORTED", "EPIPE", "ETIMEDOUT",
     "write tcp: ECONNRESET", "use of closed network connection"}

WriteResults == {"nil"} \cup WriteErrors

\* The errno at the end of the error's Unwrap chain, "" when there is none.
Errno(err) ==
    IF err \in {"ECONNRESET", "ECONNABORTED", "EPIPE", "ETIMEDOUT"} THEN err
    ELSE IF err = "write tcp: ECONNRESET" THEN "ECONNRESET"
    ELSE ""

\* A test that retries on every error.
isTransientErrorAny(err) == err # "nil"

\* isTransientError(err)
isTransientError(err) ==
    \/ Errno(err) = "ECONNRESET"
    \/ Errno(err) = "ECONNABORTED"
    \/ Errno(err) = "EPIPE"

\* A loop test that allows one attempt more.
LoopGuardInclusive(k) == k <= maxRetries

\* i < maxRetries
LoopGuard(k) == k < maxRetries

InitSend ==
    /\ sendI = 0
    /\ sendPC = "loop"
    /\ sendErr = "nil"
    /\ sendLog = <<>>
    /\ IdleButSend

\* n, err = conn.Write(data) and the branch on err
SendWrite ==
    /\ sendPC = "loop"
    /\ LoopGuard(sendI)
    /\ \E r \in WriteResults :
        /\ sendLog' = Append(sendLog, r)
        /\ IF r = "nil"
           THEN sendPC' = "done" /\ sendErr' = "nil"
           ELSE IF isTransientError(r)
           THEN sendPC' = "sleep" /\ sendErr' = sendErr
           ELSE sendPC' = "done" /\ sendErr' = r
    /\ UNCHANGED sendI
    /\ UNCHANGED notSend

\* time.Sleep(10 * time.Second); continue
SendSleep ==
    /\ sendPC = "sleep"
    /\ sendI' = sendI + 1
    /\ sendPC' = "loop"
    /\ UNCHANGED <<sendErr, sendLog>>
    /\ UNCHANGED notSend

\* The loop ends: return errors.New("temporary write failure threshold exceeded")
SendGiveUp ==
    /\ sendPC = "loop"
    /\ ~LoopGuard(sendI)
    /\ sendPC' = "done"
    /\ sendErr' = ThresholdExceeded
    /\ UNCHANGED <<sendI, sendLog>>
    /\ UNCHANGED notSend

NextSend == SendWrite \/ SendSleep \/ SendGiveUp

SpecSend == InitSend /\ [][NextSend]_vars

\* Every conn.Write and every Sleep returns.
SpecSendFair == SpecSend /\ WF_vars(NextSend)

-----------------------------------------------------------------------------
(* The TLV payloads *)

BinaryType == 1
StringType == BinaryType + 1

\* 10 << 20
MaxPayloadSize == 10 * 1048576

ErrMaxPayloadSize == "maximum payload size exceeded "

\* binary.BigEndian encoding of a uint32.
PutUint32(v) ==
    <<(v \div 16777216) % 256, (v \div 65536) % 256, (v \div 256) % 256, v % 256>>

\* The uint32 in the first four bytes of s.
Uint32(s) == s[1] * 16777216 + s[2] * 65536 + s[3] * 256 + s[4]

\* A Payload: a Binary or a String with its bytes.
Payload(typ, bytes) == [type |-> typ, bytes |-> bytes]

\* What p.WriteTo(w) writes: the type, the length in 4 bytes, the bytes.
WriteTo(pl) == <<pl.type>> \o PutUint32(Len(pl.bytes)) \o pl.bytes

\* The value a ReadFrom call leaves in its receiver: a buffer of len bytes of
\* which the first Len(filled) were read from the stream and the others are
\* zero.
Received(typ, len, filled) == [type |-> typ, len |-> len, filled |-> filled]

\* A ReadFrom or decode call that returns: the payload (NoPayload with an
\* error), the bytes left in the stream and what the call did.
Returned(pl, rest, last) == [payload |-> pl, rest |-> rest, last |-> last]

NoPayload == Received(0, 0, <<>>)

\* r.Read(buf) on the connection, buf of n > 0 bytes, avail bytes being there:
\* the numbers of bytes one Read call can return.
ReadCounts(n, avail) == 1..(IF n < avail THEN n ELSE avail)

\* size > MaxPayloadSize
SizeExceeded(size) == size > MaxPayloadSize

\* The calls below take the bytes in the stream (s, starting with the type
\* byte decode has put back in front) and whether the writing end is open, and
\* give the set of ways the call can return; the set is empty while the call
\* blocks waiting for bytes.

\* The part of ReadFrom after the size test: make([]byte, size) and one
\* r.Read of it.  String.ReadFrom returns early on the Read error and
\* Binary.ReadFrom hands it back with the buffer; either way decode drops the
\* payload.
ReadPayload(typ, size, rest, open) ==
    IF size = 0
    THEN {Returned(Received(typ, 0, <<>>), rest, LastDecode(typ, size, size, "nil"))}
    ELSE IF rest = <<>>
    THEN IF open THEN {}
         ELSE {Returned(NoPayload, rest, LastDecode(typ, size, size, "EOF"))}
    ELSE {Returned(Received(typ, size, SubSeq(rest, 1, k)),
                   SubSeq(rest, k + 1, Len(rest)),
                   LastDecode(typ, size, size, "nil")) :
              k \in ReadCounts(size, Len(rest))}

\* The header part shared by both ReadFrom methods: the type byte, then the
\* 4-byte length with binary.Read (io.ReadFull).
ReadHeader(s, open, want, invalid) ==
    IF s[1] # want
    THEN [done |-> TRUE, blocked |-> FALSE, size |-> -1,
          ret |-> Returned(NoPayload, Tail(s), LastDecode(s[1], -1, 0, invalid))]
    ELSE IF Len(s) < 5
    THEN [done |-> TRUE, blocked |-> open, size |-> -1,
          ret |-> Returned(NoPayload, <<>>,
                           LastDecode(s[1], -1, 0,
                                      IF Len(s) = 1 THEN "EOF" ELSE "unexpected EOF"))]
    ELSE [done |-> FALSE, blocked |-> FALSE, size |-> Uint32(SubSeq(s, 2, 5)),
          ret |-> Returned(NoPayload, SubSeq(s, 6, Len(s)), NoDecode)]

\* (m *Binary) ReadFrom(r)
BinaryReadFrom(s, open) ==
    LET h == ReadHeader(s, open, BinaryType, "invalid Binary")
    IN IF h.blocked THEN {}
       ELSE IF h.done THEN {h.ret}
       ELSE IF SizeExceeded(h.size)
       THEN {Returned(NoPayload, h.ret.rest,
                      LastDecode(BinaryType, h.size, 0, ErrMaxPayloadSize))}
       ELSE ReadPayload(BinaryType, h.size, h.ret.rest, open)

\* (m *String) ReadFrom(r): no size test.
StringReadFrom(s, open) ==
    LET h == ReadHeader(s, open, StringType, "invalid String")
    IN IF h.blocked THEN {}
       ELSE IF h.done THEN {h.ret}
       ELSE ReadPayload(StringType, h.size, h.ret.rest, open)

\* decode(r): reads the type byte, picks the payload type and calls its
\* ReadFrom on io.MultiReader(the type byte, r).
decode(s, open) ==
    IF s = <<>>
    THEN IF open THEN {}
         ELSE {Returned(NoPayload, <<>>, LastDecode(-1, -1, 0, "EOF"))}
    ELSE IF s[1] = BinaryType THEN BinaryReadFrom(s, open)
    ELSE IF s[1] = StringType THEN StringReadFrom(s, open)
    ELSE {Returned(NoPayload, Tail(s), LastDecode(s[1], -1, 0, "unkown type"))}

-----------------------------------------------------------------------------
(* The TLV stream as a state machine *)

PayloadBytes == {1, 97}

Payloads ==
    {Payload(t, b) : t \in {BinaryType, StringType},
                     b \in SeqsUpTo(PayloadBytes, MaxPayloadLen)}

PayloadLists == UNION {[1..k -> Payloads] : k \in 1..MaxPayloads}

\* Declared lengths around MaxPayloadSize; the largest is 2^31 - 1, lengths
\* with the top bit set being beyond the integers of the model checker.
DeclaredSizes == {0, 1, 2, MaxPayloadSize, MaxPayloadSize + 1, 2147483647}

\* What a peer that does not use WriteTo can send: any type byte and declared
\* length before a few bytes, and streams cut inside the header.
RawStreams ==
    {<<t>> \o PutUint32(n) \o b :
        t \in {0, BinaryType, StringType, 3}, n \in DeclaredSizes,
        b \in SeqsUpTo({97}, MaxPayloadLen)}
    \cup {<<BinaryType>>, <<StringType, 0>>, <<StringType, 0, 0, 0>>}

InitTLV ==
    /\ \/ tlvQueue \in PayloadLists /\ tlvStream = <<>>
       \/ tlvQueue = <<>> /\ tlvStream \in RawStreams
    /\ tlvSent = <<>>
    /\ tlvOpen = TRUE
    /\ tlvGot = <<>>
    /\ tlvLast = NoDecode
    /\ IdleButTLV

\* _, err := p.WriteTo(conn) for the next payload
TLVWrite ==
    /\ tlvOpen
    /\ tlvQueue # <<>>
    /\ tlvStream' = tlvStream \o WriteTo(Head(tlvQueue))
    /\ tlvSent' = Append(tlvSent, Head(tlvQueue))
    /\ tlvQueue' = Tail(tlvQueue)
    /\ UNCHANGED <<tlvOpen, tlvGot, tlvLast>>
    /\ UNCHANGED notTLV

\* defer conn.Close() of the writing end
TLVClose ==
    /\ tlvOpen
    /\ tlvQueue = <<>>
    /\ tlvOpen' = FALSE
    /\ UNCHANGED <<tlvQueue, tlvSent, tlvStream, tlvGot, tlvLast>>
    /\ UNCHANGED notTLV

\* actual, err := decode(conn); the reading end stops at the first error
TLVDecode ==
    /\ tlvLast.err = "nil"
    /\ \E r \in decode(tlvStream, tlvOpen) :
        /\ tlvStream' = r.rest
        /\ tlvLast' = r.last
        /\ tlvGot' = IF r.last.err = "nil" THEN Append(tlvGot, r.payload) ELSE tlvGot
    /\ UNCHANGED <<tlvQueue, tlvSent, tlvOpen>>
    /\ UNCHANGED notTLV

NextTLV == TLVWrite \/ TLVClose \/ TLVDecode

SpecTLV == InitTLV /\ [][NextTLV]_vars

-----------------------------------------------------------------------------
(* Pinger *)

\* 30 * time.Second
defaultPingInterval == 30

\* The values the callers send on the reset channel, in seconds.
Durations == {-1, 0, 1, 2}

\* timer.Stop(): before Go 1.23 it reports whether the timer was running and
\* leaves a value already sent in timer.C; from Go 1.23 on it also reports
\* true for a timer that has fired and whose value has not been received, and
\* discards that value.
TimerStop(t, go123) ==
    [timer |-> Timer(FALSE, t.deadline, IF go123 THEN FALSE ELSE t.pending),
     stopped |-> IF go123 THEN t.active \/ t.pending ELSE t.active]

\* A Stop without the receive from timer.C.
StopNoDrain(t, go123) ==
    [timer |-> TimerStop(t, go123).timer, blocked |-> FALSE]

\* if !timer.Stop() { <-timer.C }: the receive blocks for ever when the timer
\* is stopped and its channel is empty.
StopAndDrain(t, go123) ==
    LET st == TimerStop(t, go123)
    IN IF st.stopped THEN [timer |-> st.timer, blocked |-> FALSE]
       ELSE IF st.timer.pending
       THEN [timer |-> Timer(FALSE, t.deadline, FALSE), blocked |-> FALSE]
       ELSE [timer |-> st.timer, blocked |-> TRUE]

\* timer.Reset(d) at time t0
TimerReset(t, dur, go123, t0) ==
    Timer(TRUE, t0 + dur, IF go123 THEN FALSE ELSE t.pending)

\* An update that takes every value received as the new interval.
NewIntervalAny(v, interval) == v

\* if newInterval > 0 { interval = newInterval }
NewInterval(v, interval) == IF v > 0 THEN v ELSE interval

InitPing ==
    /\ now = 0
    /\ pingGo123 \in BOOLEAN
    /\ pingPC = "start"
    /\ pingCtx = FALSE
    /\ pingCtxAt = "idle"
    /\ pingReset \in {<<>>} \cup {<<v>> : v \in Durations}
    /\ pingInterval = 0
    /\ pingTimer = NoTimer
    /\ pingResetAt = -1
    /\ pingWroteAt = -1
    /\ pingFailed = FALSE
    /\ pingLast = <<>>
    /\ IdleButPing

\* The first select, the default interval and time.NewTimer(interval)
PingStart ==
    /\ pingPC = "start"
    /\ \/ /\ pingCtx
          /\ pingPC' = "done"
          /\ UNCHANGED <<pingReset, pingInterval, pingTimer, pingResetAt, pingLast>>
       \/ /\ pingReset # <<>>
          /\ pingInterval' = IF Head(pingReset) <= 0 THEN defaultPingInterval
                             ELSE Head(pingReset)
          /\ pingReset' = Tail(pingReset)
          /\ pingLast' = <<Head(pingReset)>>
          /\ pingResetAt' = now
          /\ pingTimer' = Timer(TRUE, now + pingInterval', FALSE)
          /\ pingPC' = "loop"
       \/ /\ ~pingCtx
          /\ pingReset = <<>>
          /\ pingInterval' = defaultPingInterval
          /\ pingTimer' = Timer(TRUE, now + pingInterval', FALSE)
          /\ pingPC' = "loop"
          /\ UNCHANGED <<pingReset, pingResetAt, pingLast>>
    /\ UNCHANGED <<now, pingGo123, pingCtx, pingCtxAt, pingWroteAt, pingFailed>>
    /\ UNCHANGED notPing

\* case <-ctx.Done(): return, and the deferred Stop and drain
PingDone ==
    /\ pingPC = "loop"
    /\ pingCtx
    /\ LET r == StopAndDrain(pingTimer, pingGo123)
       IN /\ pingTimer' = r.timer
          /\ pingPC' = IF r.blocked THEN "blocked" ELSE "done"
    /\ UNCHANGED <<now, pingGo123, pingCtx, pingCtxAt, pingReset, pingInterval,
                   pingResetAt, pingWroteAt, pingFailed, pingLast>>
    /\ UNCHANGED notPing

\* case newInterval := <-reset: Stop and drain, the new interval if it is
\* positive, timer.Reset(interval)
PingResetReceived ==
    /\ pingPC = "loop"
    /\ pingReset # <<>>
    /\ LET r == StopAndDrain(pingTimer, pingGo123)
           v == Head(pingReset)
       IN IF r.blocked
          THEN /\ pingPC' = "blocked"
               /\ pingTimer' = r.timer
               /\ UNCHANGED pingInterval
          ELSE /\ pingPC' = "loop"
               /\ pingInterval' = NewInterval(v, pingInterval)
               /\ pingTimer' = TimerReset(r.timer, pingInterval', pingGo123, now)
    /\ pingReset' = Tail(pingReset)
    /\ pingResetAt' = now
    /\ pingWroteAt' = -1
    /\ pingLast' = <<Head(pingReset)>>
    /\ UNCHANGED <<now, pingGo123, pingCtx, pingCtxAt, pingFailed>>
    /\ UNCHANGED notPing

\* case <-timer.C:
PingTimerReceived ==
    /\ pingPC = "loop"
    /\ pingTimer.pending
    /\ pingTimer' = Timer(pingTimer.active, pingTimer.deadline, FALSE)
    /\ pingPC' = "write"
    /\ pingLast' = <<>>
    /\ UNCHANGED <<now, pingGo123, pingCtx, pingCtxAt, pingReset, pingInterval,
                   pingResetAt, pingWroteAt, pingFailed>>
    /\ UNCHANGED notPing

\* w.Write([]byte("ping")) returns nil, then timer.Reset(interval)
PingWritten ==
    /\ pingPC = "write"
    /\ pingWroteAt' = now
    /\ pingTimer' = TimerReset(pingTimer, pingInterval, pingGo123, now)
    /\ pingPC' = "loop"
    /\ UNCHANGED <<now, pingGo123, pingCtx, pingCtxAt, pingReset, pingInterval,
                   pingResetAt, pingFailed, pingLast>>
    /\ UNCHANGED notPing

\* w.Write([]byte("ping")) returns an error: return, and the deferred Stop and
\* drain
PingWriteFailed ==
    /\ pingPC = "write"
    /\ pingFailed' = TRUE
    /\ LET r == StopAndDrain(pingTimer, pingGo123)
       IN /\ pingTimer' = r.timer
          /\ pingPC' = IF r.blocked THEN "blocked" ELSE "done"
    /\ UNCHANGED <<now, pingGo123, pingCtx, pingCtxAt, pingReset, pingInterval,
                   pingResetAt, pingWroteAt, pingLast>>
    /\ UNCHANGED notPing

\* The caller calls cancel().
PingCancel ==
    /\ ~pingCtx
    /\ pingCtx' = TRUE
    /\ pingCtxAt' = pingPC
    /\ UNCHANGED <<now, pingGo123, pingPC, pingReset, pingInterval, pingTimer,
                   pingResetAt, pingWroteAt, pingFailed, pingLast>>
    /\ UNCHANGED notPing

\* The caller sends on the reset channel, which buffers one value.
PingSendReset ==
    /\ pingReset = <<>>
    /\ \E v \in Durations : pingReset' = <<v>>
    /\ UNCHANGED <<now, pingGo123, pingPC, pingCtx, pingCtxAt, pingInterval, pingTimer,
                   pingResetAt, pingWroteAt, pingFailed, pingLast>>
    /\ UNCHANGED notPing

\* The runtime fires the timer: a value is sent to timer.C.
PingTimerFires ==
    /\ pingTimer.active
    /\ now >= pingTimer.deadline
    /\ pingTimer' = Timer(FALSE, pingTimer.deadline, TRUE)
    /\ UNCHANGED <<now, pingGo123, pingPC, pingCtx, pingCtxAt, pingReset, pingInterval,
                   pingResetAt, pingWroteAt, pingFailed, pingLast>>
    /\ UNCHANGED notPing

\* Time passes: a second, or up to the moment the timer fires; a timer that
\* is due fires first.
PingTick ==
    /\ now < MaxTime
    /\ ~(pingTimer.active /\ now >= pingTimer.deadline)
    /\ \/ now' = now + 1
       \/ pingTimer.active /\ pingTimer.deadline <= MaxTime /\ now' = pingTimer.deadline
    /\ UNCHANGED <<pingGo123, pingPC, pingCtx, pingCtxAt, pingReset, pingInterval,
                   pingTimer, pingResetAt, pingWroteAt, pingFailed, pingLast>>
    /\ UNCHANGED notPing

NextPing ==
    \/ PingStart \/ PingDone \/ PingResetReceived \/ PingTimerReceived
    \/ PingWritten \/ PingWriteFailed
    \/ PingCancel \/ PingSendReset \/ PingTimerFires \/ PingTick

SpecPing == InitPing /\ [][NextPing]_vars

-----------------------------------------------------------------------------
(* echoServerUDP *)

\* buf := make([]byte, 1024)
UDPBufSize == 1024

\* A ReadFrom into a buffer one byte too small.
ReadFromShortBuf(dg) ==
    Datagram(dg.addr, SubSeq(dg.data, 1, MinOf(Len(dg.data), UDPBufSize - 1)))

\* n, clientAddr, err := s.ReadFrom(buf): buf[:n] and clientAddr for the next
\* datagram; what does not fit in buf is dropped.
ReadFrom(dg) ==
    Datagram(dg.addr, SubSeq(dg.data, 1, MinOf(Len(dg.data), UDPBufSize)))

\* A watcher that never closes the socket.
CloseNever(ctx) == FALSE

\* <-ctx.Done() has returned in the watcher goroutine.
CloseOnCancel(ctx) == ctx

Clients == {"client1", "client2"}

ClientData == {<<>>, SourceBytes(UDPBufSize, 0), SourceBytes(UDPBufSize + 1, 1)}

ClientDatagrams == {Datagram(a, x) : a \in Clients, x \in ClientData}

\* The state once echoServerUDP has returned the bound address.
InitUDP ==
    /\ udpInbox = <<>>
    /\ udpPC = "read"
    /\ udpBuf = NoDatagram
    /\ udpCtx = FALSE
    /\ udpClosed = FALSE
    /\ udpReceived = <<>>
    /\ udpEchoed = <<>>
    /\ IdleButUDP

\* A client's datagram reaches the open socket.
UDPArrive ==
    /\ ~udpClosed
    /\ Len(udpReceived) + Len(udpInbox) < MaxDatagrams
    /\ \E dg \in ClientDatagrams : udpInbox' = Append(udpInbox, dg)
    /\ UNCHANGED <<udpPC, udpBuf, udpCtx, udpClosed, udpReceived, udpEchoed>>
    /\ UNCHANGED notUDP

\* s.ReadFrom(buf) returns the next datagram
UDPReadFrom ==
    /\ udpPC = "read"
    /\ ~udpClosed
    /\ udpInbox # <<>>
    /\ udpBuf' = ReadFrom(Head(udpInbox))
    /\ udpReceived' = Append(udpReceived, Head(udpInbox))
    /\ udpInbox' = Tail(udpInbox)
    /\ udpPC' = "write"
    /\ UNCHANGED <<udpCtx, udpClosed, udpEchoed>>
    /\ UNCHANGED notUDP

\* s.ReadFrom(buf) returns an error on the closed socket: return
UDPReadFromFails ==
    /\ udpPC = "read"
    /\ udpClosed
    /\ udpPC' = "exit"
    /\ UNCHANGED <<udpInbox, udpBuf, udpCtx, udpClosed, udpReceived, udpEchoed>>
    /\ UNCHANGED notUDP

\* s.WriteTo(buf[:n], clientAddr) sends the datagram
UDPWriteTo ==
    /\ udpPC = "write"
    /\ ~udpClosed
    /\ udpEchoed' = Append(udpEchoed, udpBuf)
    /\ udpPC' = "read"
    /\ UNCHANGED <<udpInbox, udpBuf, udpCtx, udpClosed, udpReceived>>
    /\ UNCHANGED notUDP

\* s.WriteTo(buf[:n], clientAddr) returns an error, on the closed socket or
\* from the network: return
UDPWriteToFails ==
    /\ udpPC = "write"
    /\ udpPC' = "exit"
    /\ UNCHANGED <<udpInbox, udpBuf, udpCtx, udpClosed, udpReceived, udpEchoed>>
    /\ UNCHANGED notUDP

\* The caller calls cancel().
UDPCancel ==
    /\ ~udpCtx
    /\ udpCtx' = TRUE
    /\ UNCHANGED <<udpInbox, udpPC, udpBuf, udpClosed, udpReceived, udpEchoed>>
    /\ UNCHANGED notUDP

\* The watcher goroutine: <-ctx.Done(); _ = s.Close().  The datagrams still
\* waiting in the socket are dropped.
UDPClose ==
    /\ CloseOnCancel(udpCtx)
    /\ ~udpClosed
    /\ udpClosed' = TRUE
    /\ udpInbox' = <<>>
    /\ UNCHANGED <<udpPC, udpBuf, udpCtx, udpReceived, udpEchoed>>
    /\ UNCHANGED notUDP

NextUDP ==
    \/ UDPArrive \/ UDPReadFrom \/ UDPReadFromFails \/ UDPWriteTo
    \/ UDPWriteToFails \/ UDPCancel \/ UDPClose

SpecUDP == InitUDP /\ [][NextUDP]_vars

\* The watcher and the receive loop are scheduled, and every WriteTo returns.
SpecUDPFair ==
    /\ SpecUDP
    /\ WF_vars(UDPClose)
    /\ WF_vars(UDPReadFromFails)
    /\ WF_vars(UDPWriteTo \/ UDPWriteToFails)

-----------------------------------------------------------------------------
(* The fan-out dial of TestDialContextCancelFanOut *)

\* for i := 0; i < 10; i++
NumDialers == 10

\* go dial(ctx, ..., res, i+1, &wg)
Dialers == 1..NumDialers

\* The dialer goroutines run the same code and differ in nothing but the id
\* they would send, so fanPC counts how many of them are at each point:
\* in DialContext, in the select, returned.
DialerCount(dial, select, done) == [dial |-> dial, select |-> select, done |-> done]

\* A test that closes the channel without waiting for the dialers.
WaitDoneAlways(pc) == TRUE

\* wg.Wait() returns: every dialer has called wg.Done().
WaitDone(pc) == pc.done = NumDialers

\* The state once the ten dialers have been started and the test function
\* waits in <-res.
InitFan ==
    /\ fanPC = DialerCount(NumDialers, 0, 0)
    /\ fanMain = "receive"
    /\ fanCtx = "nil"
    /\ fanGot = <<>>
    /\ fanClosed = FALSE
    /\ fanPanic = FALSE
    /\ IdleButFan

\* d.DialContext returns a connection, which is closed: the dialer reaches
\* its select.  It cannot once the context is done.
FanDialed ==
    /\ fanPC.dial > 0
    /\ fanCtx = "nil"
    /\ fanPC' = DialerCount(fanPC.dial - 1, fanPC.select + 1, fanPC.done)
    /\ UNCHANGED <<fanMain, fanCtx, fanGot, fanClosed, fanPanic>>
    /\ UNCHANGED notFan

\* d.DialContext returns an error (refused, or the context is done): return
FanDialFailed ==
    /\ fanPC.dial > 0
    /\ fanPC' = DialerCount(fanPC.dial - 1, fanPC.select, fanPC.done + 1)
    /\ UNCHANGED <<fanMain, fanCtx, fanGot, fanClosed, fanPanic>>
    /\ UNCHANGED notFan

\* case <-ctx.Done(): return
FanSeesDone ==
    /\ fanPC.select > 0
    /\ fanCtx # "nil"
    /\ fanPC' = DialerCount(fanPC.dial, fanPC.select - 1, fanPC.done + 1)
    /\ UNCHANGED <<fanMain, fanCtx, fanGot, fanClosed, fanPanic>>
    /\ UNCHANGED notFan

\* case response <- id: a send on the closed channel panics; otherwise it
\* completes with response := <-res of the test function, the channel having
\* no buffer.  Any dialer can be the one in the select.
FanSend ==
    /\ fanPC.select > 0
    /\ IF fanClosed
       THEN /\ fanPanic' = TRUE
            /\ UNCHANGED <<fanMain, fanGot>>
       ELSE /\ fanMain = "receive"
            /\ \E id \in Dialers : fanGot' = Append(fanGot, id)
            /\ fanMain' = "cancel"
            /\ UNCHANGED fanPanic
    /\ fanPC' = DialerCount(fanPC.dial, fanPC.select - 1, fanPC.done + 1)
    /\ UNCHANGED <<fanCtx, fanClosed>>
    /\ UNCHANGED notFan

\* The 10-second deadline of the context passes.
FanDeadline ==
    /\ fanCtx = "nil"
    /\ fanCtx' = "deadline"
    /\ UNCHANGED <<fanPC, fanMain, fanGot, fanClosed, fanPanic>>
    /\ UNCHANGED notFan

\* cancel()
FanCancel ==
    /\ fanMain = "cancel"
    /\ fanCtx' = IF fanCtx = "nil" THEN "canceled" ELSE fanCtx
    /\ fanMain' = "wait"
    /\ UNCHANGED <<fanPC, fanGot, fanClosed, fanPanic>>
    /\ UNCHANGED notFan

\* wg.Wait() returns
FanWaited ==
    /\ fanMain = "wait"
    /\ WaitDone(fanPC)
    /\ fanMain' = "close"
    /\ UNCHANGED <<fanPC, fanCtx, fanGot, fanClosed, fanPanic>>
    /\ UNCHANGED notFan

\* close(res)
FanClose ==
    /\ fanMain = "close"
    /\ fanClosed' = TRUE
    /\ fanMain' = "end"
    /\ UNCHANGED <<fanPC, fanCtx, fanGot, fanPanic>>
    /\ UNCHANGED notFan

FanDialer == FanDialed \/ FanDialFailed \/ FanSeesDone \/ FanSend

FanTest == FanCancel \/ FanWaited \/ FanClose

NextFan == FanDialer \/ FanTest \/ FanDeadline

SpecFan == InitFan /\ [][NextFan]_vars

\* Some goroutine that can take a step takes one: a DialContext returns and
\* a goroutine that is ready to run is scheduled.
SpecFanFair == SpecFan /\ WF_vars(FanDialer \/ FanTest)

-----------------------------------------------------------------------------
(* proxyConn *)

\* What net.Dial returns as its error.
DialErrors == {"nil", "connection refused"}

\* What a peer sends before it ends its side.
PeerData == UNION {[1..n -> {1, 2}] : n \in 0..MaxRelayLen}

InitProxy ==
    /\ proxyPC = "dialSource"
    /\ proxyErr = "nil"
    /\ proxyOpen = [c \in Conns |-> FALSE]
    /\ proxyPeer \in [Conns -> PeerData]
    /\ proxyEOF = [c \in Conns |-> FALSE]
    /\ proxyCopy = [c \in Conns |-> "none"]
    /\ proxyBuf = [c \in Conns |-> <<>>]
    /\ proxyRelayed = [c \in Conns |-> <<>>]
    /\ IdleButProxy

\* connSource, err := net.Dial("tcp", source); defer connSource.Close()
ProxyDialSource ==
    /\ proxyPC = "dialSource"
    /\ \E err \in DialErrors :
        IF err = "nil"
        THEN /\ proxyOpen' = [proxyOpen EXCEPT !["source"] = TRUE]
             /\ proxyPC' = "dialDestination"
             /\ UNCHANGED proxyErr
        ELSE /\ proxyErr' = err
             /\ proxyPC' = "returned"
             /\ UNCHANGED proxyOpen
    /\ UNCHANGED <<proxyPeer, proxyEOF, proxyCopy, proxyBuf, proxyRelayed>>
    /\ UNCHANGED notProxy

\* connDestination, err := net.Dial("tcp", destination); on an error the
\* deferred connSource.Close() runs; defer connDestination.Close()
ProxyDialDestination ==
    /\ proxyPC = "dialDestination"
    /\ \E err \in DialErrors :
        IF err = "nil"
        THEN /\ proxyOpen' = [proxyOpen EXCEPT !["destination"] = TRUE]
             /\ proxyPC' = "goToSource"
             /\ UNCHANGED proxyErr
        ELSE /\ proxyErr' = err
             /\ proxyOpen' = [proxyOpen EXCEPT !["source"] = FALSE]
             /\ proxyPC' = "returned"
    /\ UNCHANGED <<proxyPeer, proxyEOF, proxyCopy, proxyBuf, proxyRelayed>>
    /\ UNCHANGED notProxy

\* go func() { _, _ = io.Copy(connSource, connDestination) }()
ProxyGoToSource ==
    /\ proxyPC = "goToSource"
    /\ proxyCopy' = [proxyCopy EXCEPT !["source"] = "read"]
    /\ proxyPC' = "goToDestination"
    /\ UNCHANGED <<proxyErr, proxyOpen, proxyPeer, proxyEOF, proxyBuf, proxyRelayed>>
    /\ UNCHANGED notProxy

\* go func() { _, _ = io.Copy(connDestination, connSource) }()
ProxyGoToDestination ==
    /\ proxyPC = "goToDestination"
    /\ proxyCopy' = [proxyCopy EXCEPT !["destination"] = "read"]
    /\ proxyPC' = "return"
    /\ UNCHANGED <<proxyErr, proxyOpen, proxyPeer, proxyEOF, proxyBuf, proxyRelayed>>
    /\ UNCHANGED notProxy

\* return nil, and with it the deferred connDestination.Close() and
\* connSource.Close()
ProxyReturn ==
    /\ proxyPC = "return"
    /\ proxyOpen' = [c \in Conns |-> FALSE]
    /\ proxyPC' = "returned"
    /\ UNCHANGED <<proxyErr, proxyPeer, proxyEOF, proxyCopy, proxyBuf, proxyRelayed>>
    /\ UNCHANGED notProxy

\* io.Copy(to, from) reads from its source connection: an error once the
\* connection is closed, the next byte of the peer, or EOF once the peer
\* has ended; it waits while the peer is silent.
CopyRead(to) ==
    /\ proxyCopy[to] = "read"
    /\ IF ~proxyOpen[Other(to)]
       THEN /\ proxyCopy' = [proxyCopy EXCEPT ![to] = "ended"]
            /\ UNCHANGED <<proxyPeer, proxyBuf>>
       ELSE IF proxyPeer[Other(to)] # <<>>
       THEN /\ proxyBuf' = [proxyBuf EXCEPT ![to] = <<Head(proxyPeer[Other(to)])>>]
            /\ proxyPeer' = [proxyPeer EXCEPT ![Other(to)] = Tail(@)]
            /\ proxyCopy' = [proxyCopy EXCEPT ![to] = "write"]
       ELSE /\ proxyEOF[Other(to)]
            /\ proxyCopy' = [proxyCopy EXCEPT ![to] = "ended"]
            /\ UNCHANGED <<proxyPeer, proxyBuf>>
    /\ UNCHANGED <<proxyPC, proxyErr, proxyOpen, proxyEOF, proxyRelayed>>
    /\ UNCHANGED notProxy

\* io.Copy(to, from) writes what it read: an error once the connection it
\* writes to is closed.
CopyWrite(to) ==
    /\ proxyCopy[to] = "write"
    /\ IF proxyOpen[to]
       THEN /\ proxyRelayed' = [proxyRelayed EXCEPT ![to] = @ \o proxyBuf[to]]
            /\ proxyCopy' = [proxyCopy EXCEPT ![to] = "read"]
       ELSE /\ proxyCopy' = [proxyCopy EXCEPT ![to] = "ended"]
            /\ UNCHANGED proxyRelayed
    /\ proxyBuf' = [proxyBuf EXCEPT ![to] = <<>>]
    /\ UNCHANGED <<proxyPC, proxyErr, proxyOpen, proxyPeer, proxyEOF>>
    /\ UNCHANGED notProxy

\* A peer ends its side.
PeerEnds(c) ==
    /\ ~proxyEOF[c]
    /\ proxyEOF' = [proxyEOF EXCEPT ![c] = TRUE]
    /\ UNCHANGED <<proxyPC, proxyErr, proxyOpen, proxyPeer, proxyCopy, proxyBuf, proxyRelayed>>
    /\ UNCHANGED notProxy

NextProxy ==
    \/ ProxyDialSource
    \/ ProxyDialDestination
    \/ ProxyGoToSource
    \/ ProxyGoToDestination
    \/ ProxyReturn
    \/ \E c \in Conns : CopyRead(c) \/ CopyWrite(c) \/ PeerEnds(c)

SpecProxy == InitProxy /\ [][NextProxy]_vars

-----------------------------------------------------------------------------
(* Data.MarshalBinary called by two threads on one packet *)

\* The payload sources of the shared packet: readers that end with io.EOF.
RaceSources ==
    {Reader(SourceBytes(n, seed), -1) :
        n \in {0, 1, BlockSize, BlockSize + 1, 2 * BlockSize}, seed \in 0..MaxSeed}

\* Whether a thread may start a call: at any time when the callers do not
\* serialize, otherwise only while no other call is in progress.
MayCall(sync, others) == ~sync \/ \A pc \in others : pc = "idle"

InitRace ==
    /\ \E src \in RaceSources :
        /\ raceD = Data(0, src)
        /\ raceSrc = src.data
    /\ raceSync \in BOOLEAN
    /\ racePC = [t \in Threads |-> "idle"]
    /\ raceTmp = [t \in Threads |-> 0]
    /\ raceBlk = [t \in Threads |-> 0]
    /\ raceCalls = 0
    /\ raceOut = <<>>
    /\ IdleButRace

\* d.MarshalBinary() is called: b := new(bytes.Buffer); b.Grow(DatagramSize)
RaceCall(t) ==
    /\ racePC[t] = "idle"
    /\ raceCalls < MaxRaceCalls
    /\ MayCall(raceSync, {racePC[u] : u \in Threads \ {t}})
    /\ racePC' = [racePC EXCEPT ![t] = "load"]
    /\ raceCalls' = raceCalls + 1
    /\ UNCHANGED <<raceD, raceSrc, raceSync, raceTmp, raceBlk, raceOut>>
    /\ UNCHANGED notRace

\* d.Block++, the load of d.Block
RaceLoad(t) ==
    /\ racePC[t] = "load"
    /\ raceTmp' = [raceTmp EXCEPT ![t] = raceD.Block]
    /\ racePC' = [racePC EXCEPT ![t] = "store"]
    /\ UNCHANGED <<raceD, raceSrc, raceSync, raceBlk, raceCalls, raceOut>>
    /\ UNCHANGED notRace

\* d.Block++, the store of the incremented value
RaceStore(t) ==
    /\ racePC[t] = "store"
    /\ raceD' = [raceD EXCEPT !.Block = IncUint16(raceTmp[t])]
    /\ racePC' = [racePC EXCEPT ![t] = "block"]
    /\ UNCHANGED <<raceSrc, raceSync, raceTmp, raceBlk, raceCalls, raceOut>>
    /\ UNCHANGED notRace

\* binary.Write(b, binary.BigEndian, d.Block), after the opcode
RaceWriteBlock(t) ==
    /\ racePC[t] = "block"
    /\ raceBlk' = [raceBlk EXCEPT ![t] = raceD.Block]
    /\ racePC' = [racePC EXCEPT ![t] = "copy"]
    /\ UNCHANGED <<raceD, raceSrc, raceSync, raceTmp, raceCalls, raceOut>>
    /\ UNCHANGED notRace

\* io.CopyN(b, d.Payload, BlockSize) and return b.Bytes(), nil.  The copy is
\* taken as one step: of what two copies racing on one reader can do, only
\* that each takes a chunk of its own.
RaceCopy(t) ==
    /\ racePC[t] = "copy"
    /\ LET cp == CopyN(raceD.Payload, BlockSize)
       IN /\ raceD' = [raceD EXCEPT !.Payload = cp.reader]
          /\ raceOut' = Append(raceOut, [block |-> raceBlk[t], payload |-> cp.bytes])
    /\ racePC' = [racePC EXCEPT ![t] = "idle"]
    /\ UNCHANGED <<raceSrc, raceSync, raceTmp, raceBlk, raceCalls>>
    /\ UNCHANGED notRace

NextRace ==
    \E t \in Threads :
        RaceCall(t) \/ RaceLoad(t) \/ RaceStore(t) \/ RaceWriteBlock(t) \/ RaceCopy(t)

SpecRace == InitRace /\ [][NextRace]_vars

-----------------------------------------------------------------------------
(* Properties of the ReadReq codec *)

Range(s) == {s[i] : i \in DOMAIN s}

\* The bytes of b after its 2-byte opcode.
Body(b) == SubSeq(b, 3, Len(b))

\* The positions of the first and of the second NUL of s (0 when missing).
FirstNUL(s) == IF DelimAt(s, NUL) = {} THEN 0 ELSE Min(DelimAt(s, NUL))
SecondNUL(s) ==
    IF Cardinality(DelimAt(s, NUL)) < 2 THEN 0
    ELSE Min(DelimAt(s, NUL) \ {FirstNUL(s)})

\* b is well framed: opcode 1, a non-empty filename and a mode, each followed
\* by its NUL.
WellFramed(b) ==
    /\ Len(b) >= 2 /\ b[1] = 0 /\ b[2] = 1
    /\ FirstNUL(Body(b)) > 1
    /\ SecondNUL(Body(b)) > 0

WireMode(b) == SubSeq(Body(b), FirstNUL(Body(b)) + 1, SecondNUL(Body(b)) - 1)

\* The last call was q.UnmarshalBinary(out) on bytes an encoder returned.
DecodedEncoding == op = "unmarshal" /\ out # <<>> /\ p = out

\* C1: decoding the encoding of a request with a non-empty Filename free of
\* zero bytes and a Mode among "octet", "OCTET", "Octet" succeeds and yields
\* the same Filename.
C1_RoundTripFilename ==
    (/\ DecodedEncoding
     /\ req.Filename # <<>>
     /\ NUL \notin Range(req.Filename)
     /\ req.Mode \in {StrOctet, StrOCTET, StrOctetCap})
    => (rerr = "nil" /\ q.Filename = req.Filename)

C1_Witness ==
    /\ DecodedEncoding
    /\ req = ReadReq(<<65, 97>>, StrOCTET)
    /\ rerr = "nil"
    /\ q.Filename = <<65, 97>>

\* C2 as claimed: after a successful decode the Mode field is exactly the
\* lowercase "octet".
C2_ModeIsLowercaseOctet ==
    (op = "unmarshal" /\ rerr = "nil") => q.Mode = StrOctet

\* C2 as amended: after a successful decode the Mode field holds the mode
\* bytes as they were on the wire, letter case kept, and they spell "octet"
\* once lower-cased.
C2_ModeKeptAsOnWire ==
    (op = "unmarshal" /\ rerr = "nil")
    => (q.Mode = WireMode(p) /\ ToLower(q.Mode) = StrOctet)

C2_Witness ==
    /\ op = "unmarshal"
    /\ rerr = "nil"
    /\ p = <<0, 1, 97, 0>> \o StrOCTET \o <<0>>
    /\ q.Mode = StrOCTET

\* C3: MarshalBinary returns [0,1] ++ Filename ++ [0] ++ mode ++ [0], mode
\* being the Mode field or "octet" when that is empty, 4 + len(Filename) +
\* len(mode) bytes in all, in both revisions.
C3_MarshalLayout ==
    op \in {"marshal", "marshalDT"}
    => LET mode == IF req.Mode = <<>> THEN <<111, 99, 116, 101, 116>> ELSE req.Mode
       IN /\ rerr = "nil"
          /\ out = <<0, 1>> \o req.Filename \o <<0>> \o mode \o <<0>>
          /\ Len(out) = 4 + Len(req.Filename) + Len(mode)

C3_Witness ==
    /\ op = "marshal"
    /\ req = ReadReq(<<97>>, <<>>)
    /\ out = <<0, 1, 97, 0, 111, 99, 116, 101, 116, 0>>

\* The unsupported-mode error is returned exactly for the well-framed inputs
\* whose mode is not "octet" in some letter case.
UnsupportedModeExactly ==
    (rerr = "only binary transfers supported")
    <=> (WellFramed(p) /\ ToLower(WireMode(p)) # StrOctet)

\* C4: UnmarshalBinary fails with the unsupported-mode error for every
\* well-framed RRQ whose mode differs from "octet" case-insensitively, and
\* never for a mode that is "octet" in any letter case; stated of both
\* revisions of the decoder.
C4_UnsupportedMode ==
    op \in {"unmarshal", "unmarshalDT"} => UnsupportedModeExactly

\* The same of the decoder of src/TFTP.go alone.
C4_UnsupportedModeTFTP ==
    op = "unmarshal" => UnsupportedModeExactly

C4_WitnessTFTP ==
    /\ op = "unmarshal"
    /\ p = <<0, 1, 97, 0>> \o StrNetascii \o <<0>>
    /\ rerr = "only binary transfers supported"

\* C5: UnmarshalBinary fails whenever the NUL ending the filename or the NUL
\* ending the mode is missing.
C5_MissingTerminator ==
    (op = "unmarshal" /\ Cardinality(DelimAt(Body(p), NUL)) < 2)
    => rerr # "nil"

C5_Witness ==
    /\ op = "unmarshal"
    /\ p = <<0, 1, 97, 0>> \o StrOctet
    /\ rerr = "invalid RRQ"

\* C6: UnmarshalBinary fails when the byte after the opcode is the NUL, and a
\* successfully decoded request has a non-empty Filename.
C6_EmptyFilename ==
    op = "unmarshal"
    => /\ (Len(p) >= 3 /\ p[3] = NUL) => rerr # "nil"
       /\ rerr = "nil" => q.Filename # <<>>

C6_Witness ==
    /\ op = "unmarshal"
    /\ p = <<0, 1, 0>> \o StrOctet \o <<0>>
    /\ rerr = "invalid RRQ: empty filename"

\* The first two bytes of b are the big-endian value 1.
OpcodeOne(b) == Len(b) >= 2 /\ b[1] = 0 /\ b[2] = 1

\* C7 as claimed: every buffer whose first two bytes are not the big-endian 1,
\* buffers shorter than 2 bytes included, fails with the invalid-request
\* error.
C7_InvalidRequestError ==
    (op = "unmarshal" /\ ~OpcodeOne(p)) => rerr = "invalid RRQ"

\* C7 as amended: such a buffer always fails; with the invalid-request error
\* when it has at least 2 bytes, and with the end-of-input error of the opcode
\* read (io.EOF for no byte, io.ErrUnexpectedEOF for one) when it is shorter.
C7_WrongOpcodeRejected ==
    (op = "unmarshal" /\ ~OpcodeOne(p))
    => /\ rerr # "nil"
       /\ Len(p) >= 2 => rerr = "invalid RRQ"
       /\ Len(p) = 1 => rerr = "unexpected EOF"
       /\ Len(p) = 0 => rerr = "EOF"

C7_Witness ==
    /\ op = "unmarshal"
    /\ p = <<0, 2, 97>>
    /\ rerr = "invalid RRQ"

\* C8: a call of UnmarshalBinary that returns an error leaves the receiver's
\* fields as they were before the call.
C8_NoPartialDecode ==
    [][(op' = "unmarshal" /\ rerr' # "nil") => q' = q]_vars

\* The part of C8 about Data: a call of Data.UnmarshalBinary that returns an
\* error leaves the receiver as it was (it holds, under SpecData).
C8_DataNoPartialDecode ==
    [][(dop' = "unmarshal" /\ derr' # "nil") => rd' = rd]_vars

-----------------------------------------------------------------------------
(* Properties of the Data codec *)

\* The block number written in a datagram.
WireBlock(b) == b[3] * 256 + b[4]

\* C9: the k-th successful call of Data.MarshalBinary on a packet whose Block
\* was b before the first call emits block number b+k (a uint16) and leaves
\* Block = b+k.
C9_BlockAfterKSuccesses ==
    (dop = "marshal" /\ derr = "nil")
    => /\ d.Block = (b0 + succ) % 65536
       /\ WireBlock(dout) = (b0 + succ) % 65536

\* What holds instead: every call, failed ones included, advances Block by
\* one, and a successful call emits the advanced Block.
C9_BlockAfterKCalls ==
    dop = "marshal"
    => /\ d.Block = (b0 + calls) % 65536
       /\ derr = "nil" => WireBlock(dout) = d.Block

\* No read of the next n bytes of reader r returns an error.
Delivers(r, n) == r.fault < 0 \/ r.fault >= n

\* C10: with at least 512 bytes remaining in the payload source (which
\* delivers them), Data.MarshalBinary returns 516 bytes: [0,3], the
\* incremented block number big-endian, and the next 512 bytes of the source
\* in order; Block 5 before the call gives block 6.
C10_FullBlockDatagram ==
    (/\ dop = "marshal"
     /\ Len(dpre.Payload.data) >= 512
     /\ Delivers(dpre.Payload, 512))
    => /\ derr = "nil"
       /\ Len(dout) = 516
       /\ SubSeq(dout, 1, 2) = <<0, 3>>
       /\ dout[3] = ((dpre.Block + 1) % 65536) \div 256
       /\ dout[4] = ((dpre.Block + 1) % 65536) % 256
       /\ dpre.Block = 5 => SubSeq(dout, 3, 4) = <<0, 6>>
       /\ SubSeq(dout, 5, 516) = SubSeq(dpre.Payload.data, 1, 512)

C10_Witness ==
    /\ dop = "marshal"
    /\ dpre.Block = 5
    /\ Len(dpre.Payload.data) = 512
    /\ derr = "nil"
    /\ Len(dout) = 516
    /\ SubSeq(dout, 1, 4) = <<0, 3, 0, 6>>

\* Every read up to the end of reader r returns without an error other than
\* io.EOF.
DeliversToEnd(r) == r.fault < 0 \/ r.fault > Len(r.data)

\* C11: with k < 512 bytes remaining in the payload source (k = 0 included),
\* Data.MarshalBinary returns without error 4 + k bytes: the header followed
\* by those k bytes and nothing more.
C11_ShortBlockDatagram ==
    (/\ dop = "marshal"
     /\ Len(dpre.Payload.data) < 512
     /\ DeliversToEnd(dpre.Payload))
    => /\ derr = "nil"
       /\ Len(dout) = 4 + Len(dpre.Payload.data)
       /\ SubSeq(dout, 1, 2) = <<0, 3>>
       /\ WireBlock(dout) = (dpre.Block + 1) % 65536
       /\ SubSeq(dout, 5, Len(dout)) = dpre.Payload.data

C11_Witness ==
    /\ dop = "marshal"
    /\ Len(dpre.Payload.data) = 100
    /\ derr = "nil"
    /\ Len(dout) = 104

\* The concatenation of a sequence of byte strings.
RECURSIVE Concat(_)
Concat(ss) == IF ss = <<>> THEN <<>> ELSE Head(ss) \o Concat(Tail(ss))

\* C12: as long as no read of the source fails, repeated Data.MarshalBinary
\* calls read it in order in 512-byte chunks: the payloads emitted so far
\* followed by what the source still holds are the source, no payload has
\* more than 512 bytes, and a payload shorter than 512 bytes is emitted only
\* once the source is exhausted.
C12_ChunksAreTheSource ==
    calls = succ
    => /\ Concat(chunks) \o d.Payload.data = src0
       /\ d.Payload.data = <<>> => Concat(chunks) = src0
       /\ \A i \in DOMAIN chunks :
            /\ Len(chunks[i]) <= 512
            /\ Len(chunks[i]) < 512
               => Len(Concat(SubSeq(chunks, 1, i))) = Len(src0)

C12_Witness ==
    /\ calls = succ
    /\ Len(src0) = 1124
    /\ Len(chunks) = 3
    /\ Len(chunks[1]) = 512 /\ Len(chunks[2]) = 512 /\ Len(chunks[3]) = 100
    /\ Concat(chunks) = src0

\* C13 as claimed: a Data encode whose source offers more than 512 bytes is
\* rejected with an error.
C13_OversizeRejected ==
    (/\ dop = "marshal"
     /\ Len(dpre.Payload.data) > 512
     /\ Delivers(dpre.Payload, 512))
    => derr # "nil"

\* C13 as amended: such an encode is not rejected; it returns a 516-byte
\* datagram with the first 512 bytes and leaves the rest, in order, in the
\* source for the calls that follow.
C13_OversizeLeftForNextCall ==
    (/\ dop = "marshal"
     /\ Len(dpre.Payload.data) > 512
     /\ Delivers(dpre.Payload, 512))
    => /\ derr = "nil"
       /\ Len(dout) = 516
       /\ SubSeq(dout, 5, 516) = SubSeq(dpre.Payload.data, 1, 512)
       /\ d.Payload.data = SubSeq(dpre.Payload.data, 513, Len(dpre.Payload.data))

C13_Witness ==
    /\ dop = "marshal"
    /\ Len(dpre.Payload.data) = 513
    /\ derr = "nil"
    /\ Len(dout) = 516
    /\ Len(d.Payload.data) = 1

\* C14: Data.UnmarshalBinary succeeds exactly when the buffer has 4 to 516
\* bytes and begins with the big-endian 3; buffers of fewer than 4 or more
\* than 516 bytes are rejected whatever they hold.
C14_DataAcceptedExactly ==
    dop = "unmarshal"
    => /\ derr = "nil" <=> (Len(dp) >= 4 /\ Len(dp) <= 516 /\ dp[1] = 0 /\ dp[2] = 3)
       /\ (Len(dp) < 4 \/ Len(dp) > 516) => derr # "nil"

C14_Witness ==
    /\ dop = "unmarshal"
    /\ Len(dp) = 517
    /\ SubSeq(dp, 1, 2) = <<0, 3>>
    /\ derr = "invalid Data"

\* The bytes the last Data.MarshalBinary took from the source.
EncodedChunk ==
    SubSeq(dpre.Payload.data, 1, MinOf(512, Len(dpre.Payload.data)))

\* C15: Data.UnmarshalBinary of a datagram Data.MarshalBinary returned
\* succeeds and yields the block number written in it and, as payload, the
\* chunk that was encoded.
C15_DataRoundTrip ==
    (dop = "unmarshal" /\ dout # <<>> /\ dp = dout)
    => /\ derr = "nil"
       /\ rd.Block = WireBlock(dout)
       /\ rd.Block = d.Block
       /\ rd.Payload.data = EncodedChunk

C15_Witness ==
    /\ dop = "unmarshal"
    /\ dp = dout
    /\ dpre.Block = 5
    /\ Len(dout) = 516
    /\ derr = "nil"
    /\ rd.Block = 6
    /\ Len(rd.Payload.data) = 512

-----------------------------------------------------------------------------
(* Error kinds of the ReadReq decoder *)

\* Why b is not a valid RRQ, by the first defect met reading it left to
\* right ("ok" when there is none).
Cause(b) ==
    IF Len(b) < 2 THEN "header"
    ELSE IF ~OpcodeOne(b) THEN "opcode"
    ELSE IF FirstNUL(Body(b)) = 0 THEN "terminator"
    ELSE IF FirstNUL(Body(b)) = 1 THEN "empty"
    ELSE IF SecondNUL(Body(b)) = 0 THEN "terminator"
    ELSE IF ToLower(WireMode(b)) # StrOctet THEN "mode"
    ELSE "ok"

\* The four kinds of the claim: a truncated header counts as malformed framing,
\* like a missing terminator.
ClaimedKind(b) ==
    IF Cause(b) \in {"header", "terminator"} THEN "framing" ELSE Cause(b)

\* The kinds the code tells apart: a wrong opcode and a missing terminator are
\* one kind.
CodeKind(b) ==
    IF Cause(b) \in {"opcode", "terminator"} THEN "invalid" ELSE Cause(b)

\* One datagram of each cause, to compare the error of the last call with.
ProbeInputs ==
    { <<0>>,
      <<0, 2, 97, 0>> \o StrOctet \o <<0>>,
      <<0, 1, 97>>,
      <<0, 1, 97, 0>> \o StrOctet,
      <<0, 1, 0>> \o StrOctet \o <<0>>,
      <<0, 1, 97, 0>> \o StrNetascii \o <<0>>,
      <<0, 1, 97, 0>> \o StrOctet \o <<0>> }

\* The error UnmarshalBinary returns for b.
ErrorFor(b) == ReadReqUnmarshalBinary(ZeroReadReq, b).err

\* C20 as claimed: a wrong opcode, malformed framing, an empty filename and an
\* unsupported mode are each reported by an error of their own, so two
\* rejections with the same error have the same cause.
C20_FourKindsToldApart ==
    op = "unmarshal"
    => \A b \in ProbeInputs : ErrorFor(b) = rerr => ClaimedKind(b) = ClaimedKind(p)

\* C20 as amended: the errors are messages; an empty filename and an
\* unsupported mode have a message of their own and a truncated header
\* returns the reader's end-of-input error, but a wrong opcode and a missing
\* terminator both return "invalid RRQ".
C20_KindsOfTheCode ==
    op = "unmarshal"
    => /\ \A b \in ProbeInputs : ErrorFor(b) = rerr => CodeKind(b) = CodeKind(p)
       /\ CodeKind(p) = "invalid" => rerr = "invalid RRQ"
       /\ CodeKind(p) = "empty" => rerr = "invalid RRQ: empty filename"
       /\ CodeKind(p) = "mode" => rerr = "only binary transfers supported"
       /\ CodeKind(p) = "header" => rerr \in {"EOF", "unexpected EOF"}
       /\ CodeKind(p) = "ok" => rerr = "nil"

C20_Witness ==
    /\ op = "unmarshal"
    /\ p = <<0, 1, 97>>
    /\ Cause(p) = "terminator"
    /\ rerr = ErrorFor(<<0, 2, 97, 0>> \o StrOctet \o <<0>>)

-----------------------------------------------------------------------------
(* Properties of the Ack codec *)

\* C16: for every 16-bit block number n, encoding Ack(n) returns without
\* error exactly the 4 bytes [0, 4, n div 256, n mod 256].
C16_AckEncoding ==
    aop = "marshal"
    => /\ aerr = "nil"
       /\ aout = <<0, 4, ack \div 256, ack % 256>>

\* What the encoder of the source does return: never the block number.
C16_AckEncodingOfTheCode ==
    aop = "marshal" => aerr = "nil" /\ aout \in {<<>>, <<0, 4>>}

\* C17: decoding an Acknowledgment succeeds if and only if the buffer has
\* exactly 4 bytes of which the first two are the big-endian value 4, Block is
\* then the big-endian value of bytes 3-4, and decoding the encoding of Ack n
\* gives n.
C17_AckDecodeRoundTrip ==
    /\ aop = "decode"
       => /\ aerr = "nil" <=> (Len(ap) = 4 /\ ap[1] = 0 /\ ap[2] = 4)
          /\ aerr = "nil" => ra = ap[3] * 256 + ap[4]
    /\ aop = "decode" /\ asent /\ ap = aout
       => aerr = "nil" /\ ra = ack

\* The part of C17 about buffers, which holds of the decoder alone.
C17_AckDecodeAcceptsExactly ==
    aop = "decode"
    => /\ aerr = "nil" <=> (Len(ap) = 4 /\ ap[1] = 0 /\ ap[2] = 4)
       /\ aerr = "nil" => ra = ap[3] * 256 + ap[4]

-----------------------------------------------------------------------------
(* Properties of the dispatch decode *)

\* The opcode of b, for b of at least two bytes.
Opcode(b) == b[1] * 256 + b[2]

-----------------------------------------------------------------------------
(* Properties of the ErrorPacket codec *)

\* b has no zero byte after its 4-byte header.
NoTerminator(b) == \A i \in 5..Len(b) : b[i] # 0

-----------------------------------------------------------------------------
(* Properties of SendWithRetry *)

TransientErrnos == {"ECONNRESET", "ECONNABORTED", "EPIPE"}

\* C28: SendWithRetry writes again only after a transient error; the first
\* successful write is the last write and the call returns nil, and the first
\* non-transient error is the last write and the call returns that error.
C28_RetryOnlyAfterTransient ==
    \A k \in 1..Len(sendLog) :
        /\ k < Len(sendLog) => Errno(sendLog[k]) \in TransientErrnos
        /\ sendLog[k] = "nil"
           => k = Len(sendLog) /\ sendPC = "done" /\ sendErr = "nil"
        /\ sendLog[k] # "nil" /\ Errno(sendLog[k]) \notin TransientErrnos
           => k = Len(sendLog) /\ sendPC = "done" /\ sendErr = sendLog[k]

C28_Witness ==
    /\ sendPC = "done"
    /\ sendLog = <<"EPIPE", "write tcp: ECONNRESET", "ETIMEDOUT">>
    /\ sendErr = "ETIMEDOUT"

\* C29: SendWithRetry always terminates, after at most 7 write attempts; when
\* all 7 attempts fail with transient errors it returns the threshold error,
\* and it returns nil only after a successful write.
C29_TerminatesWithinSevenWrites ==
    /\ [](Len(sendLog) <= 7)
    /\ [](sendPC = "done" /\ Len(sendLog) = 7
            /\ (\A k \in 1..7 : Errno(sendLog[k]) \in TransientErrnos)
          => sendErr = "temporary write failure threshold exceeded")
    /\ [](sendPC = "done" /\ sendErr = "nil"
          => sendLog # <<>> /\ sendLog[Len(sendLog)] = "nil")
    /\ <>(sendPC = "done")

C29_Witness ==
    /\ sendPC = "done"
    /\ Len(sendLog) = 7
    /\ \A k \in 1..7 : Errno(sendLog[k]) \in TransientErrnos
    /\ sendErr = "temporary write failure threshold exceeded"

-----------------------------------------------------------------------------
(* Properties of the TLV stream *)

\* The payload decode returned is the payload written: same type, same bytes.
SamePayload(got, sent) ==
    /\ got.type = sent.type
    /\ got.len = Len(sent.bytes)
    /\ got.filled = sent.bytes

\* The payloads decoded so far are the first payloads written, in order, and
\* decode fails only with EOF, once everything written has been decoded and
\* the writing end is closed.
DecodedAreTheWritten ==
    /\ Len(tlvGot) <= Len(tlvSent)
    /\ \A k \in 1..Len(tlvGot) : SamePayload(tlvGot[k], tlvSent[k])
    /\ tlvLast.err # "nil"
       => tlvLast.err = "EOF" /\ ~tlvOpen /\ Len(tlvGot) = Len(tlvSent)

\* The stream carries only what WriteTo wrote.
WrittenWithWriteTo == tlvQueue # <<>> \/ tlvSent # <<>>

\* C21: for any sequence of Binary and String payloads written with WriteTo,
\* successive decode calls return payloads of the same type and bytes, in the
\* order written, however the stream splits the bytes across reads.
C21_StreamRoundTrip == WrittenWithWriteTo => DecodedAreTheWritten

\* What does hold: the round trip, as long as every Read of a payload has
\* returned the whole payload.
C21_RoundTripWhenReadsFill ==
    WrittenWithWriteTo /\ (\A k \in 1..Len(tlvGot) : Len(tlvGot[k].filled) = tlvGot[k].len)
    => DecodedAreTheWritten

\* C27: Binary.ReadFrom and String.ReadFrom both reject a declared length
\* greater than MaxPayloadSize with ErrMaxPayloadSize before allocating, so
\* no decode allocates more than MaxPayloadSize bytes.
C27_OversizeRejectedBeforeAllocation ==
    /\ tlvLast.alloc <= 10485760
    /\ tlvLast.size > 10485760
       => tlvLast.err = "maximum payload size exceeded " /\ tlvLast.alloc = 0

\* What does hold: Binary.ReadFrom rejects such a length before allocating.
C27_BinaryOversizeRejected ==
    tlvLast.typ = 1
    => /\ tlvLast.alloc <= 10485760
       /\ tlvLast.size > 10485760
          => tlvLast.err = "maximum payload size exceeded " /\ tlvLast.alloc = 0

-----------------------------------------------------------------------------
(* Properties of Pinger *)

\* C22: Pinger returns after its context is cancelled, from every state of
\* its loop; its deferred timer Stop-and-drain always completes instead of
\* blocking.  Stated as what a finite run refutes: a call whose context was
\* cancelled while it was in the loop is never blocked in the drain.
C22_CancelledNeverBlocksInDrain ==
    pingCtxAt = "loop" => pingPC # "blocked"

\* What does hold: the drain blocks only after a w.Write has failed.
C22_BlocksOnlyAfterFailedWrite ==
    pingPC = "blocked" => pingFailed

\* C23: every value received on the reset channel restarts the ping timer:
\* after a reset is received no "ping" is written until one full current
\* interval has elapsed since that reset.
C23_NoPingWithinIntervalOfReset ==
    [][pingPC = "write" /\ pingPC' = "loop" /\ pingResetAt >= 0
       => now >= pingResetAt + pingInterval]_vars

C23_Witness ==
    /\ pingPC = "loop"
    /\ pingResetAt >= 1
    /\ pingInterval = 2
    /\ pingWroteAt = pingResetAt + 2

-----------------------------------------------------------------------------
(* Properties of echoServerUDP *)

\* C24: while the server is running, every datagram of at most 1024 bytes it
\* receives is answered by exactly one datagram with the same bytes to the
\* address it came from, in the order received: the datagrams sent are, one
\* for one and in order, the datagrams received, all of them when the loop is
\* back in ReadFrom and all but the last while it is in WriteTo.
C24_EchoesEachDatagramOnce ==
    /\ Len(udpEchoed) <= Len(udpReceived)
    /\ \A k \in 1..Len(udpEchoed) :
          /\ udpEchoed[k].addr = udpReceived[k].addr
          /\ Len(udpReceived[k].data) <= 1024 => udpEchoed[k].data = udpReceived[k].data
    /\ udpPC = "read" => Len(udpEchoed) = Len(udpReceived)
    /\ udpPC = "write" => Len(udpEchoed) = Len(udpReceived) - 1

C24_Witness ==
    /\ udpPC = "read"
    /\ Len(udpEchoed) = 2
    /\ udpEchoed[1].addr = "client1"
    /\ Len(udpEchoed[1].data) = 1024
    /\ udpEchoed[2].addr = "client2"
    /\ udpEchoed = udpReceived

\* C25: after the context is cancelled the socket is eventually closed and
\* the receive loop terminates, and no datagram is echoed once the socket is
\* closed.
C25_CancelStopsTheServer ==
    /\ [](udpCtx => <>(udpClosed /\ udpPC = "exit"))
    /\ [][udpClosed => udpEchoed' = udpEchoed]_vars

C25_Witness ==
    /\ udpCtx
    /\ udpClosed
    /\ udpPC = "exit"
    /\ Len(udpEchoed) = 1
    /\ Len(udpReceived) = 2

-----------------------------------------------------------------------------
(* Properties of the fan-out dial *)

\* C26: exactly one dialer id is received on the response channel (never
\* more than one, and one once the test function is past its receive); after
\* the context is cancelled every dialer goroutine returns and wg.Wait
\* completes, no dialer stays blocked in its select, and no dialer sends on
\* the channel after it is closed.
C26_OneResponseAndAllDialersReturn ==
    /\ [](Len(fanGot) <= 1)
    /\ [](fanMain # "receive" => Len(fanGot) = 1)
    /\ [](fanCtx # "nil" => <>(fanPC.done = NumDialers))
    /\ [](fanMain = "wait" => <>(fanMain = "end"))
    /\ [](~fanPanic)
    /\ [](fanClosed => fanPC.done = NumDialers)

\* The channel is closed after one id was received and the context cancelled,
\* every dialer having returned.
C26_Witness ==
    /\ fanClosed
    /\ fanCtx = "canceled"
    /\ Len(fanGot) = 1
    /\ fanPC.done = NumDialers

-----------------------------------------------------------------------------
(* Properties of proxyConn *)

\* A relay is in progress: its io.Copy has started and has not returned.
Relaying(to) == proxyCopy[to] \in {"read", "write"}

\* C30: after proxyConn returns nil both connections are still open and the
\* two copy goroutines relay; no connection is closed while a relay is in
\* progress on which neither peer has ended its side.
C30_OpenWhileRelaying ==
    (/\ proxyPC = "returned"
     /\ proxyErr = "nil"
     /\ \E to \in Conns : Relaying(to)
     /\ \A c \in Conns : ~proxyEOF[c])
        => \A c \in Conns : proxyOpen[c]

-----------------------------------------------------------------------------
(* Properties of the Data block counter *)

\* C31: whatever the starting Block and the number of Data.MarshalBinary
\* calls, the counter at 65535 included, no emitted datagram carries block
\* number 0.
C31_NoBlockZeroEmitted ==
    (dop = "marshal" /\ derr = "nil") => WireBlock(dout) # 0

\* C32: when Data.MarshalBinary returns an error, the packet's Block is what
\* it was before the call.
C32_BlockUnchangedOnError ==
    (dop = "marshal" /\ derr # "nil") => d.Block = dpre.Block

-----------------------------------------------------------------------------
(* Properties of Pinger's write failure and reset values *)

\* C33: when writing "ping" fails Pinger returns: its deferred Stop and
\* drain completes instead of blocking on the drained timer channel.
C33_WriteFailureNeverBlocks ==
    pingFailed => pingPC # "blocked"

\* C34: a value received on the reset channel in the loop changes the ping
\* interval only when it is greater than 0; a zero or negative value restarts
\* the timer and leaves the interval as it was; no other step of the loop
\* changes the interval.
C34_ResetChangesIntervalOnlyWhenPositive ==
    [][pingPC = "loop" =>
         IF pingReset # <<>> /\ pingReset' = Tail(pingReset)
         THEN /\ pingInterval' = IF Head(pingReset) > 0 THEN Head(pingReset)
                                 ELSE pingInterval
              /\ pingTimer' = Timer(TRUE, now + pingInterval', FALSE)
         ELSE pingInterval' = pingInterval]_vars

\* A zero or negative value was received in the loop while the interval was
\* one set by an earlier reset: the timer runs again for that interval.
C34_Witness ==
    /\ pingPC = "loop"
    /\ pingLast # <<>>
    /\ Head(pingLast) <= 0
    /\ pingInterval = 2
    /\ pingTimer = Timer(TRUE, pingResetAt + 2, FALSE)

-----------------------------------------------------------------------------
(* The two revisions of the ReadReq decoder *)

\* C35: the ReadReq decoder of src/DialTimeout.go is equivalent to that of
\* src/TFTP.go: on every byte string handed to either, both succeed or both
\* fail, and on success both give the same Filename and Mode.
C35_DecodersEquivalent ==
    op \in {"unmarshal", "unmarshalDT"} =>
        LET tftp == ReadReqUnmarshalBinary(ZeroReadReq, p)
            dt == ReadReqUnmarshalBinaryDT(ZeroReadReq, p)
        IN /\ (tftp.err = "nil") <=> (dt.err = "nil")
           /\ tftp.err = "nil" => tftp.q = dt.q

-----------------------------------------------------------------------------
(* Properties of Data.MarshalBinary called by two threads *)

\* Two emitted datagrams carry the same block number.
SameBlockTwice ==
    \E i, j \in 1..Len(raceOut) : i < j /\ raceOut[i].block = raceOut[j].block

\* The n-th chunk of the source.
NthChunk(n) ==
    SubSeq(raceSrc, MinOf((n - 1) * BlockSize, Len(raceSrc)) + 1,
           MinOf(n * BlockSize, Len(raceSrc)))

\* A datagram pairs block number n with a chunk that is not the n-th.
WrongChunk ==
    \E i \in 1..Len(raceOut) :
        raceOut[i].block < 1 \/ raceOut[i].payload # NthChunk(raceOut[i].block)

\* C36: with serialized calls of Data.MarshalBinary on one packet no two
\* datagrams carry the same block number and every datagram pairs block
\* number n with the n-th chunk of the source; with calls that interleave
\* without synchronization such a datagram is reachable (C36_Witness).
C36_SerializedCallsPairBlocksAndChunks ==
    raceSync => ~SameBlockTwice /\ ~WrongChunk

\* Two threads interleaved their calls and two datagrams carry the same
\* block number, one of them with a chunk that is not the chunk of that number.
C36_Witness ==
    /\ ~raceSync
    /\ SameBlockTwice
    /\ WrongChunk

=============================================================================
